---- MODULE Spec2Model ----
(***************************************************************************)
(* rustwide: the command executor (src/cmd/mod.rs, log_command and        *)
(* Command::run_inner), the line actions (src/cmd/process_lines_actions.rs)*)
(* and the sandbox controller (src/cmd/sandbox.rs, SandboxBuilder::run and *)
(* Container::run).                                                        *)
(*                                                                         *)
(* Time is counted in whole seconds since `start`.  A timer that is due    *)
(* fires before the clock advances; what happens within one second is      *)
(* interleaved freely.                                                     *)
(***************************************************************************)
EXTENDS Integers, Sequences, FiniteSets, TLC

\* ---------------------------------------------------------------- bounds
MaxTimeout == 2          \* largest timeout value a caller passes, seconds
MaxLines == 2            \* lines read from the child in one run
MaxActs == 2             \* calls the transformer makes on `actions` per line

\* the clock stops after the last instant at which a timer can still fire
MaxClock == 2 * MaxTimeout

\* ------------------------------------------------------ program constants
WeekSecs == 7 * 24 * 60 * 60     \* "really long" timeout, mod.rs:588
child_id == 7                    \* the pid returned by child.id()

None == <<>>
Some(x) == <<x>>
\* the values callers pass: a wall-clock timeout of MaxTimeout seconds or
\* none, any idle timeout up to MaxTimeout seconds or none
TimeoutOpts == {None, Some(MaxTimeout)}
NoOutputOpts == {None} \cup {Some(t) : t \in 1..MaxTimeout}

OutputKinds == {"stdout", "stderr"}
ExitStatuses == {0, 1}           \* status.success() <=> status = 0

\* OutputKind::prefix
prefix(kind) == IF kind = "stdout" THEN "stdout" ELSE "stderr"

\* the n-th line the child writes; every line is different
LineText(n) == "l" \o ToString(n)

\* info!("[{}] {}", kind.prefix(), line)
LogLine(kind, line) == "[" \o prefix(kind) \o "] " \o line

\* [String]::join(sep)
RECURSIVE join(_, _)
join(lines, sep) ==
    IF lines = <<>> THEN ""
    ELSE IF Len(lines) = 1 THEN lines[1]
    ELSE lines[1] \o sep \o join(Tail(lines), sep)

\* ------------------------------------------------- ProcessLinesActions
Original == [tag |-> "Original", lines |-> <<>>]
Removed == [tag |-> "Removed", lines |-> <<>>]
Replaced(ls) == [tag |-> "Replaced", lines |-> ls]

\* the calls a transformer can make on the handle
ReplaceLists == {<<"r1", "r2">>}
Calls == {[op |-> "remove_line", lines |-> <<>>]}
         \cup {[op |-> "replace_with_lines", lines |-> ls] : ls \in ReplaceLists}
CallSeqs == UNION {[1..n -> Calls] : n \in 0..MaxActs}

\* ProcessLinesActions::replace_with_lines
replace_with_lines(state, new_lines) == Replaced(new_lines)

\* ProcessLinesActions::remove_line
remove_line(state) == Removed

\* one call of the user's closure f(&line, &mut actions): the calls it makes,
\* applied in order to the handle
RECURSIVE ApplyCalls(_, _)
ApplyCalls(state, calls) ==
    IF calls = <<>> THEN state
    ELSE ApplyCalls(IF Head(calls).op = "remove_line"
                        THEN remove_line(state)
                        ELSE replace_with_lines(state, Head(calls).lines),
                    Tail(calls))

\* take_lines that hands out a copy and leaves the state in place
take_lines_keep(state) == [taken |-> state, left |-> state]

\* ProcessLinesActions::take_lines: std::mem::take returns the state and
\* leaves the default (Original) behind
take_lines(state) == [taken |-> state, left |-> Original]

\* the match on take_lines() in log_command, mod.rs:634-638
LinesOf(taken, line) ==
    CASE taken.tag = "Removed" -> <<>>
      [] taken.tag = "Original" -> <<line>>
      [] taken.tag = "Replaced" -> taken.lines

\* ------------------------------------------------------- CommandError
NoErr == [kind |-> "none", secs |-> 0, pid |-> 0]
Err(kind) == [kind |-> kind, secs |-> 0, pid |-> 0]
NoOutputFor(secs) == [kind |-> "NoOutputFor", secs |-> secs, pid |-> 0]
Timeout(secs) == [kind |-> "Timeout", secs |-> secs, pid |-> 0]
KillAfterTimeoutFailed(pid) == [kind |-> "KillAfterTimeoutFailed", secs |-> 0, pid |-> pid]

\* native::kill_process(id): the signal is delivered or the call fails
kill_process(id, delivered) ==
    IF delivered THEN [ok |-> TRUE, err |-> NoErr]
    ELSE [ok |-> FALSE, err |-> KillAfterTimeoutFailed(id)]

\* the value a Command run (or a sandboxed run) evaluates to
Res(kind, e, status, out, errl, text) ==
    [kind |-> kind, secs |-> e.secs, pid |-> e.pid, status |-> status,
     stdout |-> out, stderr |-> errl, text |-> text]
ResErr(e) == Res(e.kind, e, 0, <<>>, <<>>, "")
NoRes == Res("none", NoErr, 0, <<>>, <<>>, "")

VARIABLES
    \* the Command being run
    sandboxed,          \* Command.sandbox is Some
    timeout,            \* Command.timeout: Option<Duration>
    no_output_timeout,  \* Command.no_output_timeout: Option<Duration>
    capture,            \* run_capture() or run()
    log_output,         \* Command.log_output
    process_lines,      \* Command.process_lines is Some
    \* the call
    phase,              \* "create", "spawn", "running", "inspect", "delete", "done"
    now,                \* start.elapsed(), seconds
    deadline,           \* the idle deadline of the Timeout stream
    nRead,              \* lines read from the child so far
    actions,            \* the ProcessLinesActions of the call
    output,             \* the `output` future: the fold over the lines
    child,              \* the `child` future: time::timeout(child.wait())
    stdout,             \* accumulator of the fold
    stderr,             \* accumulator of the fold
    logged,             \* the info! lines "[kind] line" written so far
    cmdRes,             \* what run_inner returned for the executed command
    \* the sandbox
    container,          \* "none", "exists", "removed"
    oom,                \* State.OOMKilled reported by inspect, once inspected
    inspected,          \* "no", "ok", "err", "panic"
    deleted,            \* "no", "ok", "err": outcome of `docker rm -f`
    panicked,           \* a panic is unwinding / has left the call
    ret,                \* what the call returned to its caller
    \* history
    idleKill,           \* kill issued by the idle timer: "none", "ok", "failed"
    wallKill,           \* kill issued by the wall-clock timer
    emitted,            \* <<kind, line>> the transformer semantics ask for
    lastLine,           \* the last line handed to the transformer
    nCalls              \* calls of the transformer

VARIABLES
    \* the build directory builds/<name>/ (build.rs)
    pc,                 \* position of BuildDirectory::run, or "idle" / "dropped"
    nRuns,              \* calls of BuildDirectory::run so far
    source,             \* builds/<name>/source: whether it exists, the run that copied it,
                        \* the Cargo.toml copied, whether tweak_toml rewrote it, Cargo.lock
    target,             \* builds/<name>/target: whether it exists, the runs that wrote into it
    runRes,             \* what the last BuildDirectory::run returned
    purge_on_drop,      \* the purge-on-drop switch of the BuildDirectory
    dropLog,            \* error! lines written by drop
    \* the preparation of the current run (prepare.rs)
    steps,              \* steps of Prepare::prepare started, in order
    cargoRuns,          \* cargo subcommands spawned, in order
    cargo,              \* the running cargo command of run_command, or "none"
    yanked_deps,        \* the four flags of run_command
    missing_deps,
    broken_deps,
    broken_lockfile,
    cargoSeen,          \* <<kind, line>> handed to the `process` closure
    cargoStderr,        \* stderr lines captured by run_capture
    cargoRet,           \* what run_command returned, until prepare looked at it
    prepRes,            \* what Prepare::prepare returned
    \* history
    closureSaw,         \* what the user closure found when it was invoked
    targetAtStart       \* content of target/ when the current run started

VARIABLES
    \* the manifest rewriter (prepare.rs, TomlTweaker)
    table,              \* TomlTweaker.table
    files,              \* files that exist below TomlTweaker.dir
    patches,            \* TomlTweaker.patches
    original,           \* the table TomlTweaker was created with
    nTweaks,            \* calls of tweak so far
    tweakRes            \* how the last call of tweak ended: "none", "ok", "panic"

VARIABLES
    \* utils.rs, file_lock: the callers and the lock of the file
    lpc,                \* where each caller is in file_lock
    lock,               \* the caller whose open file holds the exclusive lock, or 0
    message_displayed,  \* the local of each call
    warned,             \* contention messages each caller has logged in its call
    lockRes,            \* res: what catch_unwind(f) gave each caller
    lockRet             \* how each caller left file_lock

VARIABLES
    \* cmd/sandbox.rs, SandboxImage::remote
    imageIn,            \* the arguments, the manifest of the registry, the build profile
    dockerRuns,         \* the docker commands run, in order
    imageRet            \* what SandboxImage::remote returned

VARIABLES
    \* crates/git.rs, a Git package and the repository it names
    remote,             \* the repository at the url: its branches and its HEAD
    mirror,             \* the bare clone in the cache
    gitCall             \* the last call on the package and what it returned

VARIABLES
    \* crates/local.rs, a Local package
    localSrc,           \* the tree at Local.path
    localDest,          \* the tree at dest
    localRet            \* what copy_source_to returned

VARIABLES
    \* toolchain.rs, the rustup operations of a Toolchain
    tcCall,             \* the method called, the toolchain and the name passed
    rustupRuns,         \* the argument lists rustup was run with
    tcRet               \* what the method returned

VARIABLES
    \* toolchain.rs, list_installed_toolchains
    rustupHome,         \* the entries of toolchains/ and the files of update-hashes/
    listCall,           \* the build and what the directory scan met
    listRet             \* what the listing returned

VARIABLES
    \* cmd/mod.rs and cmd/sandbox.rs, what a Command is launched with
    cmdCfg,             \* the Command as its caller built it
    prevRw,             \* whether rw_cargo_home was called on the Command before it
    wsContainer,        \* Workspace::current_container: the host-mount table, if any
    launch,             \* the environment and the mounts given to the process or to docker
    launchRet           \* what the launch returned

VARIABLES
    \* tools/mod.rs, the installation of the tools
    bins,               \* the tools whose binary is installed
    toolLog,            \* the checks, installs and updates done, in order
    toolRet             \* what install returned

VARIABLES
    \* crates/registry.rs, the archive of a registry package in the cache
    cacheFile,          \* what is at cache_path
    regCall,            \* the last method called and what it met
    fetched,            \* the packages a fetch downloaded to the end
    regRet              \* what it returned


cfgVars == <<sandboxed, timeout, no_output_timeout, capture, log_output, process_lines>>
runVars == <<now, deadline, nRead, actions, output, child, stdout, stderr, logged>>
boxVars == <<container, oom, inspected, deleted, panicked>>
histVars == <<idleKill, wallKill, emitted, lastLine, nCalls>>
dirVars == <<pc, nRuns, source, target, runRes, purge_on_drop, dropLog>>
prepVars == <<steps, cargoRuns, cargo, yanked_deps, missing_deps, broken_deps,
              broken_lockfile, cargoSeen, cargoStderr, cargoRet, prepRes>>
buildVars == <<dirVars, prepVars, closureSaw, targetAtStart>>
tweakVars == <<table, files, patches, original, nTweaks, tweakRes>>
\* everything outside the Command call
lockVars == <<lpc, lock, message_displayed, warned, lockRes, lockRet>>
imageVars == <<imageIn, dockerRuns, imageRet>>
gitVars == <<remote, mirror, gitCall>>
localVars == <<localSrc, localDest, localRet>>
tcVars == <<tcCall, rustupRuns, tcRet>>
homeVars == <<rustupHome, listCall, listRet>>
launchVars == <<cmdCfg, prevRw, wsContainer, launch, launchRet>>
toolVars == <<bins, toolLog, toolRet>>
regVars == <<cacheFile, regCall, fetched, regRet>>
wsVars == <<lockVars, imageVars, gitVars, localVars, tcVars,
            homeVars, launchVars, toolVars, regVars>>
envVars == <<buildVars, tweakVars, wsVars>>
callVars == <<cfgVars, runVars, boxVars, histVars, phase, cmdRes, ret>>
vars == <<callVars, envVars>>
\* everything a component leaves alone
notLock == <<callVars, buildVars, tweakVars, imageVars, gitVars, localVars, tcVars,
    homeVars, launchVars, toolVars, regVars>>
notImage == <<callVars, buildVars, tweakVars, lockVars, gitVars, localVars, tcVars,
    homeVars, launchVars, toolVars, regVars>>
notGit == <<callVars, buildVars, tweakVars, lockVars, imageVars, localVars, tcVars,
    homeVars, launchVars, toolVars, regVars>>
notLocal == <<callVars, buildVars, tweakVars, lockVars, imageVars, gitVars, tcVars,
    homeVars, launchVars, toolVars, regVars>>
notToolchain == <<callVars, buildVars, tweakVars, lockVars, imageVars, gitVars, localVars,
    homeVars, launchVars, toolVars, regVars>>
notHome == <<callVars, buildVars, tweakVars, lockVars, imageVars, gitVars, localVars, tcVars,
    launchVars, toolVars, regVars>>
notLaunch == <<callVars, buildVars, tweakVars, lockVars, imageVars, gitVars, localVars, tcVars,
    homeVars, toolVars, regVars>>
notTools == <<callVars, buildVars, tweakVars, lockVars, imageVars, gitVars, localVars, tcVars,
    homeVars, launchVars, regVars>>
notRegistry == <<callVars, buildVars, tweakVars, lockVars, imageVars, gitVars, localVars, tcVars,
    homeVars, launchVars, toolVars>>

\* mod.rs:583-595: the two durations log_command works with
EffTimeout == IF timeout = None THEN WeekSecs ELSE timeout[1]
\* an idle timeout that is really off when the caller passes None
EffNoOutput_off == IF no_output_timeout = None THEN WeekSecs ELSE no_output_timeout[1]
EffNoOutput == IF no_output_timeout = None THEN EffTimeout ELSE no_output_timeout[1]

Pending == [st |-> "pending", status |-> 0, err |-> NoErr]
Ready(status) == [st |-> "ok", status |-> status, err |-> NoErr]
Failed(e) == [st |-> "err", status |-> 0, err |-> e]

NoLine == [kind |-> "none", line |-> "", expected |-> <<>>, lines |-> <<>>]

\* ------------------------------------------- values of the build directory
\* a package as copy_source_to delivers it: its Cargo.toml, whether it ships
\* a Cargo.lock, whether it ships override files (.cargo/config, rust-toolchain)
Krates == [manifest : {"missing", "invalid", "ok"}, lock : BOOLEAN, overrides : BOOLEAN]

\* Ok(()) of a step, and the value before anything returned
OkUnit == Res("Ok", NoErr, 0, <<>>, <<>>, "")
PrepareError(kind, text) == Res(kind, NoErr, 0, <<>>, <<>>, text)

\* a directory that does not exist
NoSource ==
    [exists |-> FALSE, runs |-> {}, manifest |-> "missing", tweaked |-> FALSE,
     lock |-> "none", overrides |-> FALSE]
NoTarget == [exists |-> FALSE, runs |-> {}]

NotCalled == [called |-> FALSE, source |-> NoSource, target |-> NoTarget]

\* a BuildDirectory that is not in use: Workspace::build_dir(name)
BuildIdle ==
    /\ pc = "idle"
    /\ nRuns = 0
    /\ source = NoSource
    /\ target = NoTarget
    /\ runRes = NoRes
    /\ purge_on_drop = FALSE
    /\ dropLog = <<>>
    /\ steps = <<>>
    /\ cargoRuns = <<>>
    /\ cargo = "none"
    /\ yanked_deps = FALSE
    /\ missing_deps = FALSE
    /\ broken_deps = FALSE
    /\ broken_lockfile = FALSE
    /\ cargoSeen = <<>>
    /\ cargoStderr = <<>>
    /\ cargoRet = NoRes
    /\ prepRes = NoRes
    /\ closureSaw = NotCalled
    /\ targetAtStart = NoTarget

\* no TomlTweaker at work
TweakIdle ==
    /\ table = <<>>
    /\ files = {}
    /\ patches = <<>>
    /\ original = <<>>
    /\ nTweaks = 0
    /\ tweakRes = "none"

MaxProcs == 2            \* processes that share the lock file
Procs == 1..MaxProcs

\* nobody has called file_lock
LockIdle ==
    /\ lpc = [p \in Procs |-> "idle"]
    /\ lock = 0
    /\ message_displayed = [p \in Procs |-> FALSE]
    /\ warned = [p \in Procs |-> 0]
    /\ lockRes = [p \in Procs |-> "none"]
    /\ lockRet = [p \in Procs |-> "none"]

\* SandboxImage::remote has not been called
ImageIdle ==
    /\ imageIn = [size_limit |-> None, manifest |-> "none", layers |-> <<>>,
                  profile |-> "release"]
    /\ dockerRuns = <<>>
    /\ imageRet = [kind |-> "none", size |-> 0]

\* the branches of the repository a Git package names
Branches == {"main", "dev"}
NoGitCall == [op |-> "none", lines |-> <<>>, res |-> "none", ret |-> "none", commit |-> 0]
\* a repository with one commit, nothing of it in the cache
GitIdle ==
    /\ remote = [head |-> "main", tips |-> [b \in Branches |-> 1]]
    /\ mirror = [cloned |-> FALSE, head |-> "main", tips |-> [b \in Branches |-> 0]]
    /\ gitCall = NoGitCall

\* the paths below a directory, as the components walkdir yields for them
TreePaths ==
    { <<>>, <<"foo">>, <<"target">>, <<"dir">>, <<"target", "a.out">>,
      <<"dir", "target">>, <<"dir", "target", "bar">> }
NoTree == [p \in TreePaths |-> "none"]
\* no Local package yet
LocalIdle ==
    /\ localSrc = NoTree
    /\ localDest = NoTree
    /\ localRet = "none"

\* no method of a Toolchain has been called
ToolchainIdle ==
    /\ tcCall = [op |-> "none", toolchain |-> [kind |-> "none", name |-> "none", alt |-> FALSE],
                 name |-> "none", lines |-> <<>>, res |-> "none"]
    /\ rustupRuns = <<>>
    /\ tcRet = [kind |-> "none", list |-> <<>>]

\* the names an entry of toolchains/ may have
ToolchainNames == {"stable", "stage1", "0a1b2c", "0a1b2c-alt"}
\* an empty rustup home, never listed
HomeIdle ==
    /\ rustupHome = [n \in ToolchainNames |-> [kind |-> "none", hash |-> FALSE]]
    /\ listCall = [ci |-> FALSE, entries |-> <<>>, err |-> "none"]
    /\ listRet = [kind |-> "none", list |-> <<>>]

NoCommand ==
    [st |-> "none", sandboxed |-> FALSE, managed |-> FALSE, build |-> FALSE, rw |-> FALSE,
     env |-> <<>>, mounts |-> <<>>]
NoLaunch == [kind |-> "none", env |-> <<>>, volumes |-> <<>>]
\* no Command launched
LaunchIdle ==
    /\ cmdCfg = NoCommand
    /\ prevRw = FALSE
    /\ wsContainer = None
    /\ launch = NoLaunch
    /\ launchRet = "none"

\* no tool installed, install never called
ToolsIdle ==
    /\ bins = {}
    /\ toolLog = <<>>
    /\ toolRet = "none"

\* an empty registry cache
RegCrates ==
    { [name |-> "a", version |-> "1.0"], [name |-> "a", version |-> "2.0"],
      [name |-> "a-1", version |-> "1.0"] }
NoCrate == [name |-> "", version |-> ""]
CachePaths == {"a/a-1.0.crate", "a/a-2.0.crate", "a-1/a-1-1.0.crate"}
RegistryIdle ==
    /\ cacheFile = [path \in CachePaths |-> "none"]
    /\ regCall = [op |-> "none", krate |-> NoCrate, http |-> "none", write |-> "none"]
    /\ fetched = {}
    /\ regRet = "none"

\* nothing of the workspace is at work
WsIdle ==
    /\ HomeIdle
    /\ LaunchIdle
    /\ ToolsIdle
    /\ RegistryIdle
    /\ LockIdle
    /\ ImageIdle
    /\ GitIdle
    /\ LocalIdle
    /\ ToolchainIdle

\* the state before the call: nothing spawned, nothing created
InitCall ==
    /\ timeout \in TimeoutOpts
    /\ no_output_timeout \in NoOutputOpts
    /\ capture \in BOOLEAN
    /\ phase = IF sandboxed THEN "create" ELSE "spawn"
    /\ now = 0
    /\ deadline = 0
    /\ nRead = 0
    /\ actions = Original
    /\ output = Pending
    /\ child = Pending
    /\ stdout = <<>>
    /\ stderr = <<>>
    /\ logged = <<>>
    /\ cmdRes = NoRes
    /\ container = "none"
    /\ oom = FALSE
    /\ inspected = "no"
    /\ deleted = "no"
    /\ panicked = FALSE
    /\ ret = NoRes
    /\ idleKill = "none"
    /\ wallKill = "none"
    /\ emitted = <<>>
    /\ lastLine = NoLine
    /\ nCalls = 0

\* an unsandboxed Command (Command::new, Command::new_workspaceless)
InitCommand ==
    /\ sandboxed = FALSE
    /\ log_output \in BOOLEAN
    /\ process_lines \in BOOLEAN
    /\ InitCall
    /\ BuildIdle
    /\ TweakIdle
    /\ WsIdle

\* a sandboxed Command (Command::new_sandboxed) run without a transformer
\* and with output logging off
InitSandbox ==
    /\ sandboxed = TRUE
    /\ log_output = FALSE
    /\ process_lines = FALSE
    /\ InitCall
    /\ BuildIdle
    /\ TweakIdle
    /\ WsIdle


\* ----------------------------------------------------- the line pipeline
\* mod.rs:630-638: call the transformer if there is one, then take the lines
ProcessLine(state, hasF, line, calls) ==
    LET after == IF hasF THEN ApplyCalls(state, calls) ELSE state
        tk == take_lines(after)
    IN [lines |-> LinesOf(tk.taken, line), left |-> tk.left]

\* logging placed before the transformation: the line as read is logged
LogLines_before(enabled, kind, line, lines) ==
    IF enabled THEN <<LogLine(kind, line)>> ELSE <<>>

\* mod.rs:640-644: the lines logged for one read line
LogLines(enabled, kind, line, lines) ==
    IF enabled THEN [i \in 1..Len(lines) |-> LogLine(kind, lines[i])] ELSE <<>>

\* a fold that appends every line to both accumulators
Captured_both(enabled, kind, which, lines) ==
    IF enabled THEN lines ELSE <<>>

\* mod.rs:653-658: what the fold appends to the accumulator `which`
Captured(enabled, kind, which, lines) ==
    IF enabled /\ kind = which THEN lines ELSE <<>>

\* mod.rs:626: the extra check on every line
PastTimeout(elapsed, limit) == elapsed > limit

\* what the transformer's calls ask for: the last call decides
Expected(line, calls) ==
    IF calls = <<>> THEN <<line>>
    ELSE IF calls[Len(calls)].op = "remove_line" THEN <<>>
    ELSE calls[Len(calls)].lines

Tagged(kind, lines) == [i \in 1..Len(lines) |-> <<kind, lines[i]>>]

\* ----------------------------------------------------------- the futures
\* the idle timer reporting the wall-clock error
IdleOutcome_timeout(killed, secs) == IF killed.ok THEN Timeout(secs) ELSE killed.err

\* mod.rs:612-615
IdleOutcome(killed, secs) == IF killed.ok THEN NoOutputFor(secs) ELSE killed.err

\* the wall-clock timer reporting the idle error
WallOutcome_idle(killed, secs) == IF killed.ok THEN NoOutputFor(secs) ELSE killed.err

\* mod.rs:667-670
WallOutcome(killed, secs) == IF killed.ok THEN Timeout(secs) ELSE killed.err

\* a join that drops the error of the output stream
LogCommandResult_child(o, c, out, errl) ==
    IF c.st = "err" THEN [ok |-> FALSE, err |-> c.err, status |-> 0, stdout |-> <<>>, stderr |-> <<>>]
    ELSE [ok |-> TRUE, err |-> NoErr, status |-> c.status, stdout |-> out, stderr |-> errl]

\* mod.rs:680-691: join both futures, `output?` first, then `child?`
LogCommandResult(o, c, out, errl) ==
    IF o.st = "err" THEN [ok |-> FALSE, err |-> o.err, status |-> 0, stdout |-> <<>>, stderr |-> <<>>]
    ELSE IF c.st = "err" THEN [ok |-> FALSE, err |-> c.err, status |-> 0, stdout |-> <<>>, stderr |-> <<>>]
    ELSE [ok |-> TRUE, err |-> NoErr, status |-> c.status, stdout |-> out, stderr |-> errl]

\* ExecutionFailed built from the wrong accumulator
RunInnerResult_stdout(lc) ==
    IF ~lc.ok THEN ResErr(lc.err)
    ELSE IF lc.status = 0 THEN Res("Ok", NoErr, 0, lc.stdout, lc.stderr, "")
    ELSE Res("ExecutionFailed", NoErr, lc.status, <<>>, <<>>, join(lc.stdout, "\n"))

\* mod.rs:500-521: the unsandboxed branch of run_inner after log_command
RunInnerResult(lc) ==
    IF ~lc.ok THEN ResErr(lc.err)
    ELSE IF lc.status = 0 THEN Res("Ok", NoErr, 0, lc.stdout, lc.stderr, "")
    ELSE Res("ExecutionFailed", NoErr, lc.status, <<>>, <<>>, join(lc.stderr, "\n"))

\* where run_inner's value goes: to the caller, or to Container::run
AfterCommand(res) ==
    /\ cmdRes' = res
    /\ IF sandboxed
         THEN phase' = "inspect" /\ ret' = ret
         ELSE phase' = "done" /\ ret' = res

\* mod.rs:597: cmd.spawn()?
Spawn ==
    /\ phase = "spawn"
    /\ \E spawned \in BOOLEAN :
         IF spawned
           THEN /\ phase' = "running"
                /\ deadline' = now + EffNoOutput
                /\ UNCHANGED <<cmdRes, ret>>
           ELSE /\ AfterCommand(ResErr(Err("IO")))
                /\ UNCHANGED deadline
    /\ UNCHANGED <<cfgVars, envVars, boxVars, histVars, now, nRead, actions,
                   output, child, stdout, stderr, logged>>

\* one item Ok((kind, Ok(line))) of the merged stream, through and_then and
\* the fold (mod.rs:621-661)
LineRead ==
    /\ phase = "running"
    /\ output.st = "pending"
    /\ nRead < MaxLines
    /\ \E kind \in OutputKinds, calls \in CallSeqs :
         LET line == LineText(nRead + 1) IN
         /\ nRead' = nRead + 1
         /\ deadline' = now + EffNoOutput
         /\ IF PastTimeout(now, EffTimeout)
              THEN /\ calls = <<>>
                   /\ output' = Failed(Timeout(EffTimeout))
                   /\ UNCHANGED <<actions, stdout, stderr, logged, emitted, lastLine, nCalls>>
              ELSE LET p == ProcessLine(actions, process_lines, line, calls) IN
                   /\ process_lines \/ calls = <<>>
                   /\ actions' = p.left
                   /\ logged' = logged \o LogLines(log_output, kind, line, p.lines)
                   /\ stdout' = stdout \o Captured(capture, kind, "stdout", p.lines)
                   /\ stderr' = stderr \o Captured(capture, kind, "stderr", p.lines)
                   /\ emitted' = emitted \o Tagged(kind, Expected(line, calls))
                   /\ lastLine' = [kind |-> kind, line |-> line,
                                   expected |-> Expected(line, calls), lines |-> p.lines]
                   /\ nCalls' = IF process_lines THEN nCalls + 1 ELSE nCalls
                   /\ UNCHANGED output
    /\ UNCHANGED <<cfgVars, envVars, boxVars, idleKill, wallKill, now, child, phase, cmdRes, ret>>

\* mod.rs:618: Ok((_, Err(read_err))), for instance a line that is not UTF-8
ReadError ==
    /\ phase = "running"
    /\ output.st = "pending"
    /\ output' = Failed(Err("IO"))
    /\ UNCHANGED <<cfgVars, envVars, boxVars, histVars, now, deadline, nRead, actions,
                   child, stdout, stderr, logged, phase, cmdRes, ret>>

\* both line streams have ended: the merged stream ends and the fold
\* resolves with its accumulators
StreamEnd ==
    /\ phase = "running"
    /\ output.st = "pending"
    /\ output' = Ready(0)
    /\ UNCHANGED <<cfgVars, envVars, boxVars, histVars, now, deadline, nRead, actions,
                   child, stdout, stderr, logged, phase, cmdRes, ret>>

\* mod.rs:609-615: no item for no_output_timeout
IdleFire ==
    /\ phase = "running"
    /\ output.st = "pending"
    /\ now >= deadline
    /\ \E delivered \in BOOLEAN :
         LET killed == kill_process(child_id, delivered) IN
         /\ output' = Failed(IdleOutcome(killed, EffNoOutput))
         /\ idleKill' = IF killed.ok THEN "ok" ELSE "failed"
    /\ UNCHANGED <<cfgVars, envVars, boxVars, wallKill, emitted, lastLine, nCalls, now, deadline,
                   nRead, actions, child, stdout, stderr, logged, phase, cmdRes, ret>>

\* mod.rs:676: child.wait() resolves with the exit status
ChildExit ==
    /\ phase = "running"
    /\ child.st = "pending"
    /\ \E status \in ExitStatuses : child' = Ready(status)
    /\ UNCHANGED <<cfgVars, envVars, boxVars, histVars, now, deadline, nRead, actions,
                   output, stdout, stderr, logged, phase, cmdRes, ret>>

\* mod.rs:673: child.wait() fails
WaitError ==
    /\ phase = "running"
    /\ child.st = "pending"
    /\ child' = Failed(Err("IO"))
    /\ UNCHANGED <<cfgVars, envVars, boxVars, histVars, now, deadline, nRead, actions,
                   output, stdout, stderr, logged, phase, cmdRes, ret>>

\* mod.rs:664-670: the child is still running after `timeout`
WallFire ==
    /\ phase = "running"
    /\ child.st = "pending"
    /\ now >= EffTimeout
    /\ \E delivered \in BOOLEAN :
         LET killed == kill_process(child_id, delivered) IN
         /\ child' = Failed(WallOutcome(killed, EffTimeout))
         /\ wallKill' = IF killed.ok THEN "ok" ELSE "failed"
    /\ UNCHANGED <<cfgVars, envVars, boxVars, idleKill, emitted, lastLine, nCalls, now, deadline,
                   nRead, actions, output, stdout, stderr, logged, phase, cmdRes, ret>>

\* a second passes; a timer that is due fires first
Tick ==
    /\ phase = "running"
    /\ now < MaxClock
    /\ output.st = "pending" \/ child.st = "pending"
    /\ ~(output.st = "pending" /\ now >= deadline)
    /\ ~(child.st = "pending" /\ now >= EffTimeout)
    /\ now' = now + 1
    /\ UNCHANGED <<cfgVars, envVars, boxVars, histVars, deadline, nRead, actions,
                   output, child, stdout, stderr, logged, phase, cmdRes, ret>>

\* mod.rs:680-691 and 514-521: both futures are done
Finish ==
    /\ phase = "running"
    /\ output.st # "pending"
    /\ child.st # "pending"
    /\ AfterCommand(RunInnerResult(LogCommandResult(output, child, stdout, stderr)))
    /\ UNCHANGED <<cfgVars, envVars, boxVars, histVars, runVars>>


\* ------------------------------------------------------------ the sandbox
CreateErrors == {"IO", "WorkspaceNotMountedCorrectly", "ExecutionFailed"}
InspectErrors == {"ExecutionFailed", "InvalidDockerInspectOutput"}
SandboxOOM == ResErr(Err("SandboxOOM"))

\* an OOM check that only rewrites failures
ContainerRunValue_failed(res, oom_killed) ==
    IF oom_killed
      THEN IF res.kind \in {"ExecutionFailed"} THEN SandboxOOM ELSE res
      ELSE res

\* sandbox.rs:443-451: the value of Container::run once inspect succeeded
ContainerRunValue(res, oom_killed) ==
    IF oom_killed
      THEN IF res.kind \in {"Ok", "ExecutionFailed"} THEN SandboxOOM ELSE res
      ELSE res

\* deletion written after container.run() instead of in a guard: a panic
\* leaves the scope without it
ScopeExit_plain(how) == IF how = "panic" THEN "done" ELSE "delete"

\* sandbox.rs:357-368: scopeguard::defer! runs container.delete() when the
\* scope of SandboxBuilder::run is left, by return, by `?` or by unwinding
ScopeExit(how) == "delete"

\* the run's value kept when `docker inspect` fails
InspectFailed_keeps(res, e) == res

\* sandbox.rs:441 with 407-418: `let details = self.inspect()?;` comes after
\* run_inner has returned and drops its result for the inspect error
InspectFailed(res, e) == ResErr(Err(e))

\* a failed deletion returned in place of the run's value
DeleteLogged_masks(res, removed) ==
    IF removed THEN res ELSE ResErr(Err("ExecutionFailed"))

\* sandbox.rs:359-367: the guard logs a failed container.delete() with its
\* chain of causes and drops it; the value of container.run() is untouched
DeleteLogged(res, removed) == res

\* sandbox.rs:274-342 and 355: self.create(workspace)?
Create ==
    /\ phase = "create"
    /\ \/ /\ container' = "exists"
          /\ phase' = "spawn"
          /\ UNCHANGED ret
       \/ \E e \in CreateErrors :
            /\ ret' = ResErr(Err(e))
            /\ phase' = "done"
            /\ UNCHANGED container
    /\ UNCHANGED <<cfgVars, envVars, runVars, histVars, oom, inspected, deleted, panicked, cmdRes>>

\* State.OOMKilled as docker reports it: a container whose start command
\* was never spawned has not run and was not killed
OOMKilledValues == IF output.st = "pending" THEN {FALSE} ELSE BOOLEAN

\* sandbox.rs:441-451 with 407-418: self.inspect()? and the OOM check
Inspect ==
    /\ phase = "inspect"
    /\ \/ \E oom_killed \in OOMKilledValues :
            /\ inspected' = "ok"
            /\ oom' = oom_killed
            /\ ret' = ContainerRunValue(cmdRes, oom_killed)
            /\ phase' = ScopeExit("return")
            /\ UNCHANGED panicked
       \/ \E e \in InspectErrors :
            /\ inspected' = "err"
            /\ ret' = InspectFailed(cmdRes, e)
            /\ phase' = ScopeExit("error")
            /\ UNCHANGED <<oom, panicked>>
       \/ \* assert_eq!(data.len(), 1)
          /\ inspected' = "panic"
          /\ panicked' = TRUE
          /\ phase' = ScopeExit("panic")
          /\ UNCHANGED <<oom, ret>>
    /\ UNCHANGED <<cfgVars, envVars, runVars, histVars, container, deleted, cmdRes>>

\* sandbox.rs:454-458 called from the guard (359-367): `docker rm -f <id>`;
\* a failure is logged and dropped
Delete ==
    /\ phase = "delete"
    /\ \E removed \in BOOLEAN, gone \in BOOLEAN :
         /\ deleted' = IF removed THEN "ok" ELSE "err"
         /\ container' = IF removed \/ gone THEN "removed" ELSE "exists"
         /\ ret' = DeleteLogged(ret, removed)
    /\ phase' = "done"
    /\ UNCHANGED <<cfgVars, envVars, runVars, histVars, oom, inspected, panicked, cmdRes>>

\* Command::run_inner without a sandbox
NextCommand ==
    \/ Spawn
    \/ LineRead
    \/ ReadError
    \/ StreamEnd
    \/ IdleFire
    \/ ChildExit
    \/ WaitError
    \/ WallFire
    \/ Tick
    \/ Finish

\* SandboxBuilder::run: the same executor runs `docker start -a <id>`
NextSandbox ==
    \/ Create
    \/ Spawn
    \/ LineRead
    \/ ReadError
    \/ StreamEnd
    \/ IdleFire
    \/ ChildExit
    \/ WaitError
    \/ WallFire
    \/ Tick
    \/ Finish
    \/ Inspect
    \/ Delete

SpecCommand == InitCommand /\ [][NextCommand]_vars
SpecSandbox == InitSandbox /\ [][NextSandbox]_vars

TypeOK ==
    /\ phase \in {"create", "spawn", "running", "inspect", "delete", "done"}
    /\ now \in 0..MaxClock
    /\ nRead \in 0..MaxLines
    /\ container \in {"none", "exists", "removed"}
    /\ idleKill \in {"none", "ok", "failed"}
    /\ wallKill \in {"none", "ok", "failed"}


\* ---------------------------------------------------- the build directory
MaxRuns == 2             \* calls of BuildDirectory::run on one build directory

\* build.rs:220-230
build_dir == "build"
source_dir == "source"
target_dir == "target"

\* utils.rs:74-77, when the removal succeeds: what is left of source/ and
\* target/ once `path` is gone
remove_dir_all(path, src, tgt) ==
    IF path = build_dir THEN [source |-> NoSource, target |-> NoTarget]
    ELSE IF path = source_dir THEN [source |-> NoSource, target |-> tgt]
    ELSE [source |-> src, target |-> NoTarget]

\* a create_dir_all that leaves a missing directory missing
create_dir_all_noop(tgt) == tgt

\* build.rs:200: std::fs::create_dir_all keeps an existing directory as it is
create_dir_all(tgt) == IF tgt.exists THEN tgt ELSE [exists |-> TRUE, runs |-> {}]

\* the whole build directory removed at the end of a run
RunCleanupDir_build == build_dir

\* build.rs:207: the directory BuildDirectory::run removes after the closure
RunCleanupDir == source_dir

\* crates/mod.rs:85: the tree a successful copy of package k leaves in source/
Copied(k, run) ==
    [exists |-> TRUE, runs |-> {run}, manifest |-> k.manifest, tweaked |-> FALSE,
     lock |-> IF k.lock THEN "shipped" ELSE "none", overrides |-> k.overrides]

\* crates/mod.rs:85: what a copy that failed half-way leaves in source/
Partial(run) ==
    [exists |-> TRUE, runs |-> {run}, manifest |-> "missing", tweaked |-> FALSE,
     lock |-> "none", overrides |-> FALSE]

\* a purge that removes source/ only
purge_source(src, tgt, removed) ==
    IF ~src.exists /\ ~tgt.exists THEN [ok |-> TRUE, source |-> src, target |-> tgt]
    ELSE IF removed
      THEN [ok |-> TRUE, source |-> remove_dir_all(source_dir, src, tgt).source,
            target |-> remove_dir_all(source_dir, src, tgt).target]
      ELSE [ok |-> FALSE, source |-> src, target |-> tgt]

\* build.rs:212-218: BuildDirectory::purge; `removed` is what remove_dir_all
\* answers
purge(src, tgt, removed) ==
    IF ~src.exists /\ ~tgt.exists THEN [ok |-> TRUE, source |-> src, target |-> tgt]
    ELSE IF removed
      THEN [ok |-> TRUE, source |-> remove_dir_all(build_dir, src, tgt).source,
            target |-> remove_dir_all(build_dir, src, tgt).target]
      ELSE [ok |-> FALSE, source |-> src, target |-> tgt]

\* ------------------------------------------------ the preparation pipeline
\* manifest validated before it is rewritten
PrepareSteps_swapped ==
    <<"copy_source_to", "remove_override_files", "validate_manifest", "tweak_toml",
      "capture_lockfile", "fetch_deps">>

\* prepare.rs:36-45: the calls of Prepare::prepare, in order
PrepareSteps ==
    <<"copy_source_to", "remove_override_files", "tweak_toml", "validate_manifest",
      "capture_lockfile", "fetch_deps">>

\* prepare.rs:37-44 and build.rs:198-200: where control goes when a step
\* returned Ok
StepAfter(step) ==
    LET i == CHOOSE j \in 1..Len(PrepareSteps) : PrepareSteps[j] = step
    IN  IF i = Len(PrepareSteps) THEN "create_target" ELSE PrepareSteps[i + 1]

\* a TomlTweaker::new that takes a missing manifest for an empty one
TomlTweakerNew_empty(src) ==
    IF src.manifest = "invalid" /\ ~src.tweaked THEN PrepareError("InvalidCargoTomlSyntax", "") ELSE OkUnit

\* prepare.rs:198-201: read_to_string(...).context(MissingCargoToml)?,
\* toml::from_str(...).context(InvalidCargoTomlSyntax)?
TomlTweakerNew(src) ==
    IF src.tweaked THEN OkUnit
    ELSE IF src.manifest = "missing" THEN PrepareError("MissingCargoToml", "")
    ELSE IF src.manifest = "invalid" THEN PrepareError("InvalidCargoTomlSyntax", "")
    ELSE OkUnit

\* prepare.rs:54: source_dir.join("Cargo.toml").is_file()
is_file(src) == src.tweaked \/ src.manifest # "missing"

\* str::contains
contains(line, needle) ==
    \E i \in 1..(Len(line) - Len(needle) + 1) :
        SubSeq(line, i, i + Len(needle) - 1) = needle

\* what a cargo command may print: its diagnostics on stderr, and on stdout a
\* line without and a line with a diagnostic
CargoOutput ==
    {<<"stderr", "Updating index">>,
     <<"stderr", "failed to select a version for the requirement x">>,
     <<"stderr", "no matching package named x">>,
     <<"stderr", "failed to load source for dependency x">>,
     <<"stderr", "failed to parse manifest at x">>,
     <<"stderr", "error: invalid table header">>,
     <<"stderr", "error: failed to parse lock file at x">>,
     <<"stderr", "failed to parse lock file at x">>,
     <<"stderr", "no matching package named x: failed to select a version for the requirement">>,
     <<"stdout", "Updating index">>,
     <<"stdout", "failed to select a version for the requirement x">>}

NoFlags ==
    [yanked_deps |-> FALSE, missing_deps |-> FALSE, broken_deps |-> FALSE,
     broken_lockfile |-> FALSE]

Flags ==
    [yanked_deps |-> yanked_deps, missing_deps |-> missing_deps,
     broken_deps |-> broken_deps, broken_lockfile |-> broken_lockfile]

\* prepare.rs:151-165: the closure `process` of run_command
process(flags, line) ==
    IF contains(line, "failed to select a version for the requirement")
      THEN [flags EXCEPT !.yanked_deps = TRUE]
    ELSE IF \/ contains(line, "failed to load source for dependency")
            \/ contains(line, "no matching package named")
      THEN [flags EXCEPT !.missing_deps = TRUE]
    ELSE IF \/ contains(line, "failed to parse manifest at")
            \/ contains(line, "error: invalid table header")
      THEN [flags EXCEPT !.broken_deps = TRUE]
    ELSE IF contains(line, "error: failed to parse lock file at")
      THEN [flags EXCEPT !.broken_lockfile = TRUE]
    ELSE flags

\* a match that looks at the missing flag first
run_command_missing(flags, res) ==
    IF res.kind = "Ok" THEN OkUnit
    ELSE IF res.kind = "ExecutionFailed" /\ flags.missing_deps
      THEN PrepareError("MissingDependencies", res.text)
    ELSE IF res.kind = "ExecutionFailed" /\ flags.yanked_deps
      THEN PrepareError("YankedDependencies", res.text)
    ELSE IF res.kind = "ExecutionFailed" /\ flags.broken_deps
      THEN PrepareError("BrokenDependencies", res.text)
    ELSE IF res.kind = "ExecutionFailed" /\ flags.broken_lockfile
      THEN PrepareError("InvalidCargoLock", res.text)
    ELSE res

\* prepare.rs:167-182: the match of run_command on what run_capture returned
run_command(flags, res) ==
    IF res.kind = "Ok" THEN OkUnit
    ELSE IF res.kind = "ExecutionFailed" /\ flags.yanked_deps
      THEN PrepareError("YankedDependencies", res.text)
    ELSE IF res.kind = "ExecutionFailed" /\ flags.missing_deps
      THEN PrepareError("MissingDependencies", res.text)
    ELSE IF res.kind = "ExecutionFailed" /\ flags.broken_deps
      THEN PrepareError("BrokenDependencies", res.text)
    ELSE IF res.kind = "ExecutionFailed" /\ flags.broken_lockfile
      THEN PrepareError("InvalidCargoLock", res.text)
    ELSE res

\* how the two futures of log_command can end for a cargo command
CargoEnds ==
    {[o |-> Ready(0), c |-> Ready(0)],
     [o |-> Ready(0), c |-> Ready(1)],
     [o |-> Failed(NoOutputFor(MaxTimeout)), c |-> Ready(1)],
     [o |-> Ready(0), c |-> Failed(Timeout(MaxTimeout))]}

\* `?` on a failed step of Prepare::prepare (build.rs:198)
FailPrepare(e) ==
    /\ prepRes' = e
    /\ runRes' = e
    /\ pc' = "idle"

\* `?` in BuildDirectory::run outside the preparation
FailRun(e) ==
    /\ runRes' = e
    /\ pc' = "idle"

\* prepare.rs:145-150, 167: run_command starts the cargo command
StartCargo(subcommand) ==
    /\ cargo' = subcommand
    /\ cargoRuns' = Append(cargoRuns, subcommand)
    /\ yanked_deps' = FALSE
    /\ missing_deps' = FALSE
    /\ broken_deps' = FALSE
    /\ broken_lockfile' = FALSE
    /\ cargoSeen' = <<>>
    /\ cargoStderr' = <<>>
    /\ cargoRet' = NoRes
    /\ pc' = "cargo"

\* build.rs:184-195: BuildDirectory::run is called; a source/ left by an
\* earlier run is removed
Run ==
    /\ pc = "idle"
    /\ nRuns < MaxRuns
    /\ \E removed \in BOOLEAN :
         IF ~source.exists \/ removed
           THEN /\ source' = remove_dir_all(source_dir, source, target).source
                /\ runRes' = NoRes
                /\ pc' = PrepareSteps[1]
           ELSE /\ source' = source
                /\ FailRun(ResErr(Err("IO")))
    /\ nRuns' = nRuns + 1
    /\ steps' = <<>>
    /\ cargoRuns' = <<>>
    /\ cargo' = "none"
    /\ yanked_deps' = FALSE
    /\ missing_deps' = FALSE
    /\ broken_deps' = FALSE
    /\ broken_lockfile' = FALSE
    /\ cargoSeen' = <<>>
    /\ cargoStderr' = <<>>
    /\ cargoRet' = NoRes
    /\ prepRes' = NoRes
    /\ closureSaw' = NotCalled
    /\ targetAtStart' = target
    /\ UNCHANGED <<callVars, tweakVars, wsVars, target, purge_on_drop, dropLog>>

\* prepare.rs:37 and crates/mod.rs:77-86: Crate::copy_source_to
CopySource ==
    /\ pc = "copy_source_to"
    /\ steps' = Append(steps, "copy_source_to")
    /\ \E k \in Krates, removed \in BOOLEAN, copied \in BOOLEAN :
         IF source.exists /\ ~removed
           THEN /\ source' = source
                /\ FailPrepare(ResErr(Err("IO")))
           ELSE IF copied
             THEN /\ source' = Copied(k, nRuns)
                  /\ pc' = StepAfter("copy_source_to")
                  /\ UNCHANGED <<prepRes, runRes>>
             ELSE /\ source' \in {NoSource, Partial(nRuns)}
                  /\ FailPrepare(ResErr(Err("IO")))
    /\ UNCHANGED <<callVars, tweakVars, wsVars, nRuns, target, purge_on_drop, dropLog,
                   cargoRuns, cargo, yanked_deps, missing_deps, broken_deps,
                   broken_lockfile, cargoSeen, cargoStderr, cargoRet, closureSaw, targetAtStart>>

\* prepare.rs:70-85
RemoveOverrideFiles ==
    /\ pc = "remove_override_files"
    /\ steps' = Append(steps, "remove_override_files")
    /\ IF source.overrides
         THEN \E removed \in BOOLEAN :
                IF removed
                  THEN /\ source' = [source EXCEPT !.overrides = FALSE]
                       /\ pc' = StepAfter("remove_override_files")
                       /\ UNCHANGED <<prepRes, runRes>>
                  ELSE /\ source' = source
                       /\ FailPrepare(ResErr(Err("IO")))
         ELSE /\ pc' = StepAfter("remove_override_files")
              /\ UNCHANGED <<source, prepRes, runRes>>
    /\ UNCHANGED <<callVars, tweakVars, wsVars, nRuns, target, purge_on_drop, dropLog,
                   cargoRuns, cargo, yanked_deps, missing_deps, broken_deps,
                   broken_lockfile, cargoSeen, cargoStderr, cargoRet, closureSaw, targetAtStart>>

\* prepare.rs:87-93
TweakToml ==
    /\ pc = "tweak_toml"
    /\ steps' = Append(steps, "tweak_toml")
    /\ IF TomlTweakerNew(source).kind # "Ok"
         THEN /\ source' = source
              /\ FailPrepare(TomlTweakerNew(source))
         ELSE \E saved \in BOOLEAN :
                IF saved
                  THEN /\ source' = [source EXCEPT !.tweaked = TRUE]
                       /\ pc' = StepAfter("tweak_toml")
                       /\ UNCHANGED <<prepRes, runRes>>
                  ELSE /\ source' = source
                       /\ FailPrepare(ResErr(Err("IO")))
    /\ UNCHANGED <<callVars, tweakVars, wsVars, nRuns, target, purge_on_drop, dropLog,
                   cargoRuns, cargo, yanked_deps, missing_deps, broken_deps,
                   broken_lockfile, cargoSeen, cargoStderr, cargoRet, closureSaw, targetAtStart>>

\* prepare.rs:47-68: `cargo metadata` runs to its end within the step
ValidateManifest ==
    /\ pc = "validate_manifest"
    /\ steps' = Append(steps, "validate_manifest")
    /\ IF ~is_file(source)
         THEN /\ FailPrepare(PrepareError("MissingCargoToml", ""))
              /\ UNCHANGED cargoRuns
         ELSE /\ cargoRuns' = Append(cargoRuns, "metadata")
              /\ \E accepted \in BOOLEAN :
                   IF accepted
                     THEN /\ pc' = StepAfter("validate_manifest")
                          /\ UNCHANGED <<prepRes, runRes>>
                     ELSE FailPrepare(PrepareError("InvalidCargoTomlSyntax", ""))
    /\ UNCHANGED <<callVars, tweakVars, wsVars, nRuns, source, target, purge_on_drop,
                   dropLog, cargo, yanked_deps, missing_deps, broken_deps,
                   broken_lockfile, cargoSeen, cargoStderr, cargoRet, closureSaw, targetAtStart>>

\* prepare.rs:95-116
CaptureLockfile ==
    /\ pc = "capture_lockfile"
    /\ steps' = Append(steps, "capture_lockfile")
    /\ IF source.lock # "none"
         THEN /\ pc' = StepAfter("capture_lockfile")
              /\ UNCHANGED <<cargoRuns, cargo, yanked_deps, missing_deps, broken_deps,
                             broken_lockfile, cargoSeen, cargoStderr, cargoRet>>
         ELSE StartCargo("generate-lockfile")
    /\ UNCHANGED <<callVars, tweakVars, wsVars, nRuns, source, target, runRes,
                   purge_on_drop, dropLog, prepRes, closureSaw, targetAtStart>>

\* prepare.rs:118-143
FetchDeps ==
    /\ pc = "fetch_deps"
    /\ steps' = Append(steps, "fetch_deps")
    /\ StartCargo("fetch")
    /\ UNCHANGED <<callVars, tweakVars, wsVars, nRuns, source, target, runRes,
                   purge_on_drop, dropLog, prepRes, closureSaw, targetAtStart>>

\* mod.rs:630-661 with prepare.rs:151-165: the executor hands one line of the
\* cargo command to `process` and captures it
CargoLine ==
    /\ pc = "cargo"
    /\ Len(cargoSeen) < MaxLines
    /\ \E out \in CargoOutput :
         LET kind == out[1]
             line == out[2]
             flags == process(Flags, line)
         IN  /\ yanked_deps' = flags.yanked_deps
             /\ missing_deps' = flags.missing_deps
             /\ broken_deps' = flags.broken_deps
             /\ broken_lockfile' = flags.broken_lockfile
             /\ cargoSeen' = Append(cargoSeen, <<kind, line>>)
             /\ cargoStderr' = cargoStderr \o Captured(TRUE, kind, "stderr", <<line>>)
    /\ UNCHANGED <<callVars, tweakVars, wsVars, dirVars, steps, cargoRuns, cargo, cargoRet,
                   prepRes, closureSaw, targetAtStart>>

\* mod.rs:680-691, 514-521 and prepare.rs:167-182: the cargo command is over,
\* run_capture returns and run_command matches on it
CargoEnd ==
    /\ pc = "cargo"
    /\ \E e \in CargoEnds :
         LET res == RunInnerResult(LogCommandResult(e.o, e.c, <<>>, cargoStderr))
         IN  /\ cmdRes' = res
             /\ cargoRet' = run_command(Flags, res)
    /\ cargoStderr' = <<>>
    /\ pc' = "returned"
    /\ UNCHANGED <<cfgVars, runVars, boxVars, histVars, phase, ret, tweakVars, wsVars, nRuns,
                   source, target, runRes, purge_on_drop, dropLog, steps, cargoRuns,
                   cargo, yanked_deps, missing_deps, broken_deps, broken_lockfile,
                   cargoSeen, prepRes, closureSaw, targetAtStart>>

\* prepare.rs:41-44, 115, 119: capture_lockfile or fetch_deps hands on what
\* run_command returned; the locals of run_command are gone
CargoReturn ==
    /\ pc = "returned"
    /\ IF cargoRet.kind # "Ok"
         THEN /\ FailPrepare(cargoRet)
              /\ source' = source
         ELSE IF cargo = "generate-lockfile"
           THEN /\ source' = [source EXCEPT !.lock = "generated"]
                /\ pc' = StepAfter("capture_lockfile")
                /\ UNCHANGED <<prepRes, runRes>>
           ELSE /\ source' = source
                /\ pc' = StepAfter("fetch_deps")
                /\ prepRes' = OkUnit
                /\ runRes' = runRes
    /\ cargo' = "none"
    /\ cmdRes' = NoRes
    /\ cargoRet' = NoRes
    /\ yanked_deps' = FALSE
    /\ missing_deps' = FALSE
    /\ broken_deps' = FALSE
    /\ broken_lockfile' = FALSE
    /\ cargoSeen' = <<>>
    /\ UNCHANGED <<cfgVars, runVars, boxVars, histVars, phase, ret, tweakVars, wsVars, nRuns,
                   target, purge_on_drop, dropLog, steps, cargoRuns, cargoStderr,
                   closureSaw, targetAtStart>>

\* build.rs:200
CreateTarget ==
    /\ pc = "create_target"
    /\ \E created \in BOOLEAN :
         IF created \/ target.exists
           THEN /\ target' = create_dir_all(target)
                /\ pc' = "closure"
                /\ UNCHANGED runRes
           ELSE /\ target' = target
                /\ FailRun(ResErr(Err("IO")))
    /\ UNCHANGED <<callVars, tweakVars, wsVars, nRuns, source, purge_on_drop, dropLog,
                   prepVars, closureSaw, targetAtStart>>

\* build.rs:201-205: the user closure runs builds through the Build handle,
\* which may write artifacts into target/, and returns Ok or Err
UserClosure ==
    /\ pc = "closure"
    /\ closureSaw' = [called |-> TRUE, source |-> source, target |-> target]
    /\ \E ok \in BOOLEAN, writes \in BOOLEAN :
         /\ target' = IF writes /\ target.exists
                      THEN [target EXCEPT !.runs = @ \cup {nRuns}] ELSE target
         /\ IF ok
              THEN /\ pc' = "remove_source"
                   /\ UNCHANGED runRes
              ELSE FailRun(ResErr(Err("closure")))
    /\ UNCHANGED <<callVars, tweakVars, wsVars, nRuns, source, purge_on_drop, dropLog,
                   prepVars, targetAtStart>>

\* build.rs:207-208
RemoveSource ==
    /\ pc = "remove_source"
    /\ \E removed \in BOOLEAN :
         IF removed
           THEN /\ source' = remove_dir_all(RunCleanupDir, source, target).source
                /\ target' = remove_dir_all(RunCleanupDir, source, target).target
                /\ runRes' = OkUnit
                /\ pc' = "idle"
           ELSE /\ UNCHANGED <<source, target>>
                /\ FailRun(ResErr(Err("IO")))
    /\ UNCHANGED <<callVars, tweakVars, wsVars, nRuns, purge_on_drop, dropLog, prepVars,
                   closureSaw, targetAtStart>>

\* build.rs:212-218: the caller purges the build directory between two runs
Purge ==
    /\ pc = "idle"
    /\ source.exists \/ target.exists
    /\ \E removed \in BOOLEAN :
         /\ source' = purge(source, target, removed).source
         /\ target' = purge(source, target, removed).target
    /\ UNCHANGED <<callVars, tweakVars, wsVars, pc, nRuns, runRes, purge_on_drop, dropLog,
                   prepVars, closureSaw, targetAtStart>>

\* BuildDirectory::purge_on_drop(enable)
SetPurgeOnDrop ==
    /\ pc = "idle"
    /\ purge_on_drop' = ~purge_on_drop
    /\ UNCHANGED <<callVars, tweakVars, wsVars, pc, nRuns, source, target, runRes, dropLog,
                   prepVars, closureSaw, targetAtStart>>

\* Drop for BuildDirectory: purge if the switch is on, log a failure
DropBuildDirectory ==
    /\ pc = "idle"
    /\ pc' = "dropped"
    /\ IF purge_on_drop
         THEN \E removed \in BOOLEAN :
                /\ source' = purge(source, target, removed).source
                /\ target' = purge(source, target, removed).target
                /\ dropLog' = IF purge(source, target, removed).ok THEN dropLog
                              ELSE Append(dropLog, "failed to purge build directory")
         ELSE UNCHANGED <<source, target, dropLog>>
    /\ UNCHANGED <<callVars, tweakVars, wsVars, nRuns, runRes, purge_on_drop, prepVars,
                   closureSaw, targetAtStart>>

\* a BuildDirectory of a workspace, from Workspace::build_dir to its drop
InitBuild ==
    /\ sandboxed = FALSE
    /\ log_output = TRUE
    /\ process_lines = TRUE
    /\ timeout = None
    /\ no_output_timeout = None
    /\ capture = TRUE
    /\ InitCall
    /\ BuildIdle
    /\ TweakIdle
    /\ WsIdle

NextBuild ==
    \/ Run
    \/ CopySource
    \/ RemoveOverrideFiles
    \/ TweakToml
    \/ ValidateManifest
    \/ CaptureLockfile
    \/ FetchDeps
    \/ CargoLine
    \/ CargoEnd
    \/ CargoReturn
    \/ CreateTarget
    \/ UserClosure
    \/ RemoveSource
    \/ Purge
    \/ SetPurgeOnDrop
    \/ DropBuildDirectory

SpecBuild == InitBuild /\ [][NextBuild]_vars

\* ================================================================ TomlTweaker
\* prepare.rs: the rewriting of Cargo.toml by TomlTweaker::tweak

MaxEntries == 2          \* entries of an array of the manifest, patches of a build
MaxTweaks == 2           \* applications of tweak to one table

\* toml::Value as far as the tweaker looks at it
NoKey == "-"             \* Table::get returns None
NotStr == "#"            \* a value for which Value::as_str returns None

SeqsUpTo(S, n) == UNION {[1..k -> S] : k \in 0..n}

\* a key holding an array, a key holding something else, a key that is absent
TomlArray(items) == [kind |-> "array", items |-> items]
NotArray == [kind |-> "other", items |-> <<>>]
NoArray == [kind |-> "none", items |-> <<>>]

\* entries of [[example]] and [[test]]
Target(name, path) == [is_table |-> TRUE, name |-> name, path |-> path]
NotTable == [is_table |-> FALSE, name |-> NoKey, path |-> NoKey]
ExampleEntries ==
    { Target("a", NoKey), Target("b", NoKey), Target("a", "p.rs"),
      Target(NoKey, "p.rs"), Target(NotStr, "p.rs"), Target("a", NotStr),
      NotTable }
TestEntries == { Target("a", NoKey), Target(NoKey, "p.rs") }
\* files that can exist below the manifest directory
Paths == {"examples/a.rs", "examples/b.rs", "tests/a.rs", "p.rs"}

\* entries of cargo-features
Feature(s) == [is_str |-> TRUE, s |-> s]
NotFeature == [is_str |-> FALSE, s |-> NotStr]
FeatureEntries ==
    { Feature("publish-lockfile"), Feature("default-run"), Feature("edition2021"),
      NotFeature }

\* [package]: the keys it has
PackageKeys == {"name", "workspace", "publish-lockfile", "default-run"}
PackageTable(keys) == [kind |-> "table", keys |-> keys]
NotPackage == [kind |-> "other", keys |-> {}]
NoPackage == [kind |-> "none", keys |-> {}]

\* [patch.crates-io]: the table written for one dependency
PatchNames == {"a", "b"}
NoDep == [present |-> FALSE, git |-> NoKey, branch |-> NoKey, path |-> NoKey]
NoDeps == [n \in PatchNames |-> NoDep]
NoCratesIo == [kind |-> "none", deps |-> NoDeps]
NotCratesIo == [kind |-> "other", deps |-> NoDeps]
CratesIo(deps) == [kind |-> "table", deps |-> deps]
NoPatch == [kind |-> "none", crates_io |-> NoCratesIo]
NotPatch == [kind |-> "other", crates_io |-> NoCratesIo]
PatchTable(crates_io) == [kind |-> "table", crates_io |-> crates_io]
PatchValues ==
    { NoPatch, NotPatch, PatchTable(NoCratesIo), PatchTable(NotCratesIo),
      PatchTable(CratesIo(NoDeps)),
      PatchTable(CratesIo([NoDeps EXCEPT !["a"] =
          [present |-> TRUE, git |-> NoKey, branch |-> NoKey, path |-> "vendor/a"]])) }

\* build.rs: the patches of a build
GitCratePatch(name, uri, branch) ==
    [variant |-> "Git", name |-> name, uri |-> uri, branch |-> branch, path |-> NoKey]
PathCratePatch(name, path) ==
    [variant |-> "Path", name |-> name, uri |-> NoKey, branch |-> NoKey, path |-> path]
CratePatch ==
    { GitCratePatch("a", "https://x/a", "main"), PathCratePatch("a", "/patch/a"),
      PathCratePatch("b", "/patch/b") }

\* the manifest of a package nothing is special about
PlainManifest ==
    [ example |-> NoArray, test |-> NoArray, package |-> PackageTable({"name"}),
      cargo_features |-> NoArray, patch |-> NoPatch, dependencies |-> NoKey ]

\* the tables, files and patches a tweaker is created with: the keys one step
\* reads vary together, the others are those of PlainManifest
TweakInputs ==
    { [table |-> [PlainManifest EXCEPT !.example = ex, !.test = te],
       files |-> fs, patches |-> <<>>] :
         ex \in {NoArray, NotArray} \cup {TomlArray(s) : s \in SeqsUpTo(ExampleEntries, MaxEntries)},
         te \in {NoArray} \cup {TomlArray(s) : s \in SeqsUpTo(TestEntries, 1)},
         fs \in SUBSET Paths }
    \cup
    { [table |-> [PlainManifest EXCEPT !.cargo_features = cf, !.package = pk,
                                       !.dependencies = d],
       files |-> {}, patches |-> <<>>] :
         cf \in {NoArray, NotArray} \cup {TomlArray(s) : s \in SeqsUpTo(FeatureEntries, MaxEntries)},
         pk \in {NoPackage, NotPackage} \cup {PackageTable(k) : k \in SUBSET PackageKeys},
         d \in {NoKey, "serde"} }
    \cup
    { [table |-> [PlainManifest EXCEPT !.patch = pt, !.package = PackageTable({"name", "workspace"})],
       files |-> {}, patches |-> ps] :
         pt \in PatchValues, ps \in SeqsUpTo(CratePatch, MaxEntries) }

\* prepare.rs 245-248: the file an entry stands for; path.as_str().unwrap()
EntryPath(t, folder) ==
    IF t.path = NoKey THEN folder \o "/" \o t.name \o ".rs" ELSE t.path

\* prepare.rs 247: unwrap of a path that is not a string
unwrap_panics(value) ==
    \E i \in DOMAIN value :
        /\ value[i].is_table
        /\ value[i].name \notin {NoKey, NotStr}
        /\ value[i].path = NotStr

test_existance_all(dir, value, folder) ==
    SelectSeq(value, LAMBDA t : t.is_table /\ t.name \notin {NoKey, NotStr})

\* prepare.rs 236-255; dir is the set of the paths that exist below the directory
test_existance(dir, value, folder) ==
    SelectSeq(value, LAMBDA t :
        /\ t.is_table
        /\ t.name \notin {NoKey, NotStr}
        /\ EntryPath(t, folder) \in dir)

\* prepare.rs 257-266, with dir = Some (TomlTweaker::new, cargo_toml.parent())
remove_missing_items(t, dir, category) ==
    LET folder == category \o "s"
    IN  IF t[category].kind = "array"
        THEN [t EXCEPT ![category] = TomlArray(test_existance(dir, t[category].items, folder))]
        ELSE t

\* prepare.rs 268-277
remove_parent_workspaces(t) ==
    IF t.package.kind = "table"
    THEN [t EXCEPT !.package.keys = @ \ {"workspace"}]
    ELSE t

UnwantedFeatures_one == {"publish-lockfile"}

\* prepare.rs 289-290: the arms of the match in the retain closure
UnwantedFeatures == {"publish-lockfile", "default-run"}

\* removes the first unwanted entry only
remove_unwanted_cargo_features_first(t) ==
    LET vec == t.cargo_features.items
        hit == {i \in DOMAIN vec : vec[i].is_str /\ vec[i].s \in UnwantedFeatures}
        first == CHOOSE i \in hit : \A j \in hit : i <= j
        gone == IF hit = {} THEN {} ELSE {vec[first].s}
    IN  [t EXCEPT
          !.cargo_features =
              IF hit = {} THEN @
              ELSE TomlArray(SubSeq(vec, 1, first - 1) \o SubSeq(vec, first + 1, Len(vec))),
          !.package =
              IF @.kind = "table" THEN [@ EXCEPT !.keys = @ \ gone] ELSE @]

\* prepare.rs 279-314
remove_unwanted_cargo_features(t) ==
    LET isArray == t.cargo_features.kind = "array"
        vec == t.cargo_features.items
        has(f) == isArray /\ \E i \in DOMAIN vec : vec[i] = Feature(f)
        gone == {f \in UnwantedFeatures : has(f)}
    IN  [t EXCEPT
          !.cargo_features =
              IF isArray
              THEN TomlArray(SelectSeq(vec, LAMBDA key :
                       key.is_str /\ key.s \notin UnwantedFeatures))
              ELSE @,
          !.package =
              IF @.kind = "table" THEN [@ EXCEPT !.keys = @ \ gone] ELSE @]

\* prepare.rs 342-355: the table inserted for one patch
PatchEntry(patch) ==
    [present |-> TRUE, git |-> patch.uri, branch |-> patch.branch, path |-> patch.path]

\* the first patch of a name stays
InsertPatches_first(deps, ps) ==
    [n \in DOMAIN deps |->
        LET idx == {i \in DOMAIN ps : ps[i].name = n}
        IN  IF idx = {} THEN deps[n]
            ELSE PatchEntry(ps[CHOOSE i \in idx : \A j \in idx : i <= j])]

RECURSIVE InsertPatches(_, _)
\* prepare.rs 341-360: the loop over the patches, a later one replaces an earlier
InsertPatches(deps, ps) ==
    IF ps = <<>> THEN deps
    ELSE InsertPatches([deps EXCEPT ![Head(ps).name] = PatchEntry(Head(ps))], Tail(ps))

\* prepare.rs 334, 357: as_table_mut().unwrap() of a value that is not a table
apply_patches_panics(t, ps) ==
    /\ ps # <<>>
    /\ \/ t.patch.kind = "other"
       \/ t.patch.kind = "table" /\ t.patch.crates_io.kind = "other"

\* prepare.rs 316-361
apply_patches(t, ps) ==
    IF ps = <<>> THEN t
    ELSE LET patch_table == IF t.patch.kind = "none" THEN PatchTable(NoCratesIo)
                            ELSE t.patch
             cratesio_table == IF patch_table.crates_io.kind = "none" THEN CratesIo(NoDeps)
                               ELSE patch_table.crates_io
         IN  [t EXCEPT !.patch =
                 PatchTable(CratesIo(InsertPatches(cratesio_table.deps, ps)))]

\* prepare.rs 223-233
tweak(t, dir, ps) ==
    apply_patches(
        remove_unwanted_cargo_features(
            remove_parent_workspaces(
                remove_missing_items(remove_missing_items(t, dir, "example"), dir, "test"))),
        ps)

\* a panic anywhere in tweak: the checks of the two arrays and of the patch tables
\* read keys no earlier step writes
tweak_panics(t, ps) ==
    \/ t.example.kind = "array" /\ unwrap_panics(t.example.items)
    \/ t.test.kind = "array" /\ unwrap_panics(t.test.items)
    \/ apply_patches_panics(t, ps)

\* TomlTweaker::tweak on the table the tweaker holds; a panic unwinds through
\* Prepare::tweak_toml, which drops the tweaker
Tweak ==
    /\ nTweaks < MaxTweaks
    /\ tweakRes # "panic"
    /\ nTweaks' = nTweaks + 1
    /\ IF tweak_panics(table, patches)
       THEN /\ tweakRes' = "panic"
            /\ table' = table
       ELSE /\ tweakRes' = "ok"
            /\ table' = tweak(table, files, patches)
    /\ UNCHANGED <<callVars, buildVars, wsVars, files, patches, original>>

\* TomlTweaker::new has read and parsed the manifest
InitTweak ==
    /\ sandboxed = FALSE
    /\ log_output = TRUE
    /\ process_lines = TRUE
    /\ timeout = None
    /\ no_output_timeout = None
    /\ capture = TRUE
    /\ InitCall
    /\ BuildIdle
    /\ WsIdle
    /\ \E in \in TweakInputs :
        /\ table = in.table
        /\ original = in.table
        /\ files = in.files
        /\ patches = in.patches
    /\ nTweaks = 0
    /\ tweakRes = "none"

NextTweak == Tweak

SpecTweak == InitTweak /\ [][NextTweak]_vars

\* ================================================================ file_lock
\* utils.rs 24-51: fs2 takes the lock with flock(2) on the caller's open file

Lockable_always(l, p) == TRUE

\* flock(LOCK_EX): the lock is free, or this open file has it already
Lockable(l, p) == l \in {0, p}

Release_not(l, p) == l

\* flock(LOCK_UN), and the close of the file when it is dropped
Release(l, p) == IF l = p THEN 0 ELSE l

ShouldWarn_always(displayed, kind) == TRUE

\* utils.rs 36: the condition of the warning
ShouldWarn(displayed, kind) == ~displayed /\ kind = "contended"

\* utils.rs 24-33: the call, up to the open of the lock file
LockOpen(p) ==
    /\ lpc[p] = "idle"
    /\ lockRet[p] = "none"
    /\ \/ /\ lpc' = [lpc EXCEPT ![p] = "try"]
          /\ UNCHANGED lockRet
       \/ /\ lpc' = [lpc EXCEPT ![p] = "left"]
          /\ lockRet' = [lockRet EXCEPT ![p] = "io"]
    /\ UNCHANGED <<notLock, lock, message_displayed, warned, lockRes>>

\* utils.rs 35-40: try_lock_exclusive, and the warning when it failed
TryLock(p) ==
    /\ lpc[p] = "try"
    /\ \E kind \in {"ok", "contended", "other"} :
         /\ kind = "ok" => Lockable(lock, p)
         /\ kind = "contended" => ~Lockable(lock, p)
         /\ IF kind = "ok"
            THEN /\ lock' = p
                 /\ lpc' = [lpc EXCEPT ![p] = "closure"]
                 /\ UNCHANGED <<message_displayed, warned>>
            ELSE /\ lpc' = [lpc EXCEPT ![p] = "blocked"]
                 /\ IF ShouldWarn(message_displayed[p], kind)
                    THEN /\ warned' = [warned EXCEPT ![p] = @ + 1]
                         /\ message_displayed' = [message_displayed EXCEPT ![p] = TRUE]
                    ELSE UNCHANGED <<message_displayed, warned>>
                 /\ UNCHANGED lock
    /\ UNCHANGED <<notLock, lockRes, lockRet>>

\* utils.rs 41: lock_exclusive()? returns when it has the lock, or with an error
LockExclusive(p) ==
    /\ lpc[p] = "blocked"
    /\ \/ /\ Lockable(lock, p)
          /\ lock' = p
          /\ lpc' = [lpc EXCEPT ![p] = "try"]
          /\ UNCHANGED lockRet
       \/ /\ lpc' = [lpc EXCEPT ![p] = "left"]
          /\ lockRet' = [lockRet EXCEPT ![p] = "io"]
          /\ lock' = Release(lock, p)
    /\ UNCHANGED <<notLock, message_displayed, warned, lockRes>>

\* utils.rs 44: catch_unwind(f), the closure returns or panics
LockClosure(p) ==
    /\ lpc[p] = "closure"
    /\ \E r \in {"Ok", "Err", "panic"} : lockRes' = [lockRes EXCEPT ![p] = r]
    /\ lpc' = [lpc EXCEPT ![p] = "unlock"]
    /\ UNCHANGED <<notLock, lock, message_displayed, warned, lockRet>>

\* utils.rs 45: let _ = file.unlock(), its error is dropped
Unlock(p) ==
    /\ lpc[p] = "unlock"
    /\ \/ lock' = Release(lock, p)
       \/ UNCHANGED lock
    /\ lpc' = [lpc EXCEPT ![p] = "match"]
    /\ UNCHANGED <<notLock, message_displayed, warned, lockRes, lockRet>>

\* utils.rs 47-51: the result is returned or the panic resumed; the file is
\* dropped on the way out
LockReturn(p) ==
    /\ lpc[p] = "match"
    /\ lock' = Release(lock, p)
    /\ lockRet' = [lockRet EXCEPT ![p] = lockRes[p]]
    /\ lpc' = [lpc EXCEPT ![p] = "left"]
    /\ UNCHANGED <<notLock, message_displayed, warned, lockRes>>

\* the caller comes back for the lock
LockAgain(p) ==
    /\ lpc[p] = "left"
    /\ lpc' = [lpc EXCEPT ![p] = "idle"]
    /\ message_displayed' = [message_displayed EXCEPT ![p] = FALSE]
    /\ warned' = [warned EXCEPT ![p] = 0]
    /\ lockRes' = [lockRes EXCEPT ![p] = "none"]
    /\ lockRet' = [lockRet EXCEPT ![p] = "none"]
    /\ UNCHANGED <<notLock, lock>>

NextLock ==
    \E p \in Procs :
        \/ LockOpen(p)
        \/ TryLock(p)
        \/ LockExclusive(p)
        \/ LockClosure(p)
        \/ Unlock(p)
        \/ LockReturn(p)
        \/ LockAgain(p)

SpecLock == InitBuild /\ [][NextLock]_vars

\* every caller goes on and every closure ends; a lock that is free again
\* and again is given to a waiter (the wait of flock), and try_lock_exclusive
\* does not fail for ever on a lock its own file holds
SpecLockFair ==
    /\ SpecLock
    /\ \A p \in Procs :
        /\ WF_vars(TryLock(p))
        /\ SF_vars(TryLock(p) /\ lpc'[p] = "closure")
        /\ WF_vars(LockExclusive(p))
        /\ SF_vars(LockExclusive(p) /\ lpc'[p] = "try")
        /\ WF_vars(LockClosure(p))
        /\ WF_vars(Unlock(p))
        /\ WF_vars(LockReturn(p))




\* ================================================================ SandboxImage
\* cmd/sandbox.rs 46-81

UsizeBits == 3           \* the width of usize
UsizeMax == 2^UsizeBits - 1
\* DockerManifestLayer.size, and the limits a caller passes
LayerSizes == {0, 1, 2^(UsizeBits - 1), UsizeMax}
SizeLimits == {None} \cup {Some(n) : n \in 0..UsizeMax}

RECURSIVE LayerSum(_)
\* the bytes of the layers
LayerSum(layers) ==
    IF layers = <<>> THEN 0 ELSE Head(layers) + LayerSum(Tail(layers))

RECURSIVE fold(_, _)
\* sandbox.rs 56: m.layers.iter().fold(0, |acc, l| acc + l.size), in usize
fold(acc, layers) ==
    IF layers = <<>> THEN acc
    ELSE fold((acc + Head(layers)) % 2^UsizeBits, Tail(layers))

ImageRet(kind, size) == [kind |-> kind, size |-> size]

\* sandbox.rs 63-80: the pull, get_name_with_hash and ensure_exists_locally
PullImage(pull, exists) ==
    IF ~pull
    THEN [runs |-> <<"pull">>, ret |-> ImageRet("SandboxImagePullFailed", 0)]
    ELSE [runs |-> <<"pull", "inspect", "image inspect">>,
          ret |-> IF exists THEN ImageRet("Ok", 0)
                  ELSE ImageRet("SandboxImageMissing", 0)]

\* sandbox.rs 46-81; an overflow of the sum panics with overflow checks (the
\* debug profile) and wraps without them
SandboxImageRemote(size_limit, m, layers, profile, pull, exists) ==
    LET size == fold(0, layers)
        pulled == PullImage(pull, exists)
    IN  IF size_limit = None THEN pulled
        ELSE IF m = "failed"
        THEN [runs |-> <<"manifest inspect">>, ret |-> ImageRet("ExecutionFailed", 0)]
        ELSE IF m = "invalid"
        THEN [runs |-> <<"manifest inspect">>,
              ret |-> ImageRet("InvalidDockerManifestInspectOutput", 0)]
        ELSE IF profile = "debug" /\ LayerSum(layers) > UsizeMax
        THEN [runs |-> <<"manifest inspect">>, ret |-> ImageRet("panic", 0)]
        ELSE IF size > size_limit[1]
        THEN [runs |-> <<"manifest inspect">>,
              ret |-> ImageRet("SandboxImageTooLarge", size)]
        ELSE [runs |-> <<"manifest inspect">> \o pulled.runs, ret |-> pulled.ret]

\* one call of SandboxImage::remote
Remote ==
    /\ imageRet.kind = "none"
    /\ \E size_limit \in SizeLimits, m \in {"failed", "invalid", "ok"},
          layers \in SeqsUpTo(LayerSizes, MaxEntries),
          profile \in {"debug", "release"}, pull \in BOOLEAN, exists \in BOOLEAN :
         LET r == SandboxImageRemote(size_limit, m, layers, profile, pull, exists)
         IN  /\ m # "ok" => layers = <<>>
             /\ imageIn' = [size_limit |-> size_limit, manifest |-> m,
                            layers |-> layers, profile |-> profile]
             /\ dockerRuns' = r.runs
             /\ imageRet' = r.ret
    /\ UNCHANGED notImage

NextImage == Remote

SpecImage == InitBuild /\ [][NextImage]_vars


\* ================================================================ Git package
\* crates/git.rs

MaxCommits == 3          \* commits the repository gets

\* str::starts_with and str::ends_with
starts_with(line, pat) ==
    Len(line) >= Len(pat) /\ SubSeq(line, 1, Len(pat)) = pat
ends_with(line, pat) ==
    Len(line) >= Len(pat) /\ SubSeq(line, Len(line) - Len(pat) + 1, Len(line)) = pat

\* lines git prints: the one of the null credential helper, two that have
\* only its start or only its end, one that has neither
GitLines ==
    { "fatal: credential helper 'x' told us to quit",
      "fatal: credential helper 'x' told us to quit.",
      "remote: fatal: credential helper 'x' told us to quit",
      "fatal: repository 'x' not found" }
\* what a git command prints, a line or two of them
GitOutputs == SeqsUpTo(GitLines, 2)
\* how the executor ends the git command
GitResults == {"Ok", "ExecutionFailed", "Timeout", "NoOutputFor"}

\* git.rs 73-77: the closure handed to process_lines, for one line
detect_private_repositories(line) ==
    starts_with(line, "fatal: credential helper") /\ ends_with(line, "told us to quit")

GitFetchRet_flag(private_repository, res) ==
    IF private_repository THEN "PrivateGitRepository" ELSE res

\* git.rs 101-105
GitFetchRet(private_repository, res) ==
    IF private_repository /\ res # "Ok" THEN "PrivateGitRepository" ELSE res

FetchHeads_none(m, r) == m

\* git.rs 84-85: fetch origin --force --prune with refs/heads/*:refs/heads/*
\* writes every branch of the mirror, and not its HEAD
FetchHeads(m, r) == [m EXCEPT !.tips = r.tips]

\* git.rs 96: clone --bare
CloneBare(r) == [cloned |-> TRUE, head |-> r.head, tips |-> r.tips]

\* the commit HEAD of the mirror resolves to
MirrorHead == mirror.tips[mirror.head]

\* git.rs 66-106: GitRepo::fetch
GitFetch ==
    /\ \E lines \in GitOutputs, res \in GitResults :
         LET private_repository ==
                 \E i \in DOMAIN lines : detect_private_repositories(lines[i])
         IN  /\ gitCall' = [op |-> IF mirror.cloned THEN "fetch" ELSE "clone",
                            lines |-> lines, res |-> res,
                            ret |-> GitFetchRet(private_repository, res), commit |-> 0]
             /\ mirror' = IF res # "Ok" THEN mirror
                          ELSE IF mirror.cloned THEN FetchHeads(mirror, remote)
                          ELSE CloneBare(remote)
    /\ UNCHANGED <<notGit, remote>>

\* git.rs 18-38: GitRepo::git_commit, rev-parse HEAD in the mirror
GitCommit ==
    /\ \E res \in {"Ok", "ExecutionFailed"} :
         /\ res = "Ok" => mirror.cloned
         /\ gitCall' = [op |-> "git_commit", lines |-> <<>>, res |-> res,
                        ret |-> IF res = "Ok" THEN "Some" ELSE "None",
                        commit |-> IF res = "Ok" THEN MirrorHead ELSE 0]
    /\ UNCHANGED <<notGit, remote, mirror>>

\* git.rs 116-123: GitRepo::copy_source_to, a clone of the mirror
GitCopySourceTo ==
    /\ \E res \in {"Ok", "ExecutionFailed"} :
         /\ res = "Ok" => mirror.cloned
         /\ gitCall' = [op |-> "copy_source_to", lines |-> <<>>, res |-> res,
                        ret |-> res,
                        commit |-> IF res = "Ok" THEN MirrorHead ELSE 0]
    /\ UNCHANGED <<notGit, remote, mirror>>

\* somebody pushes a commit to a branch of the repository
RemoteCommit ==
    /\ \E b \in Branches :
         LET new == 1 + CHOOSE c \in 1..MaxCommits :
                           /\ \E x \in Branches : remote.tips[x] = c
                           /\ \A x \in Branches : remote.tips[x] <= c
         IN  /\ new <= MaxCommits
             /\ remote' = [remote EXCEPT !.tips[b] = new]
    /\ UNCHANGED <<notGit, mirror, gitCall>>

\* the owner makes another branch the default one
RemoteSetHead ==
    /\ \E b \in Branches \ {remote.head} : remote' = [remote EXCEPT !.head = b]
    /\ UNCHANGED <<notGit, mirror, gitCall>>

NextGit ==
    \/ GitFetch
    \/ GitCommit
    \/ GitCopySourceTo
    \/ RemoteCommit
    \/ RemoteSetHead

SpecGit == InitBuild /\ [][NextGit]_vars

\* ------------------------------------------------------------------
\* Local packages: crates/local.rs
\* ------------------------------------------------------------------

\* what a path of a tree is: nothing, a directory, a regular file with one of
\* two contents, or a symbolic link whose target is missing
TreeKinds == {"none", "dir", "one", "two", "broken"}

Parent(p) == SubSeq(p, 1, Len(p) - 1)

\* the trees a file system can hold: the root is a directory and every entry
\* lies in a directory
Trees ==
    { t \in [TreePaths -> TreeKinds] :
        /\ t[<<>>] = "dir"
        /\ \A p \in TreePaths \ {<<>>} : t[p] # "none" => t[Parent(p)] = "dir" }

\* the orders in which walkdir may yield the entries: a directory before its
\* contents, siblings in the order the file system lists them
WalkOrders ==
    { << <<>>, <<"dir">>, <<"dir", "target">>, <<"dir", "target", "bar">>,
         <<"foo">>, <<"target">>, <<"target", "a.out">> >>,
      << <<>>, <<"target">>, <<"target", "a.out">>, <<"foo">>,
         <<"dir">>, <<"dir", "target">>, <<"dir", "target", "bar">> >> }

\* p lies below one of the directories the walk was told to skip
BelowSkipped(skipped, p) ==
    \E q \in skipped : Len(q) < Len(p) /\ SubSeq(p, 1, Len(q)) = q

IsTopLevelTarget_anydepth(p) == Len(p) >= 1 /\ p[Len(p)] = "target"

\* entry.file_name() == "target" && entry.depth() == 1
IsTopLevelTarget(p) == Len(p) = 1 /\ p[Len(p)] = "target"

\* copy_dir: the walk over the entries left, with the directories skipped so far
RECURSIVE copy_dir(_, _, _, _)
copy_dir(src, dest, entries, skipped) ==
    IF entries = <<>> THEN [ret |-> "Ok", dest |-> dest]
    ELSE LET path == Head(entries)
             rest == Tail(entries)
         IN  IF src[path] = "none" \/ BelowSkipped(skipped, path)
             THEN copy_dir(src, dest, rest, skipped)
             ELSE IF src[path] = "broken"
             THEN [ret |-> "Err", dest |-> dest]
             ELSE IF src[path] = "dir"
             THEN IF IsTopLevelTarget(path)
                  THEN copy_dir(src, dest, rest, skipped \cup {path})
                  ELSE copy_dir(src, [dest EXCEPT ![path] = "dir"], rest, skipped)
             ELSE copy_dir(src, [dest EXCEPT ![path] = src[path]], rest, skipped)

\* Local::new on a directory, with a fresh directory to copy to
LocalNew ==
    /\ \E t \in Trees : localSrc' = t
    /\ localDest' = NoTree
    /\ localRet' = "none"
    /\ UNCHANGED notLocal

\* Local::copy_source_to
LocalCopySourceTo ==
    /\ localSrc # NoTree
    /\ localRet = "none"
    /\ \E order \in WalkOrders :
         LET res == copy_dir(localSrc, localDest, order, {})
         IN  /\ localDest' = res.dest
             /\ localRet' = res.ret
    /\ UNCHANGED <<notLocal, localSrc>>

NextLocal ==
    \/ LocalNew
    \/ LocalCopySourceTo

SpecLocal == InitBuild /\ [][NextLocal]_vars

\* ------------------------------------------------------------------
\* Toolchains: the rustup operations of toolchain.rs
\* ------------------------------------------------------------------

\* a dist toolchain, and a CI toolchain with and without the alt flag
Toolchains ==
    { [kind |-> "dist", name |-> "stable", alt |-> FALSE],
      [kind |-> "ci", name |-> "0a1b2c", alt |-> FALSE],
      [kind |-> "ci", name |-> "0a1b2c", alt |-> TRUE] }

ThingNames == {"clippy", "wasm32-unknown-unknown"}

\* Toolchain::rustup_name
rustup_name(tc) ==
    IF tc.kind = "dist" THEN tc.name
    ELSE IF tc.alt THEN tc.name \o "-alt"
    ELSE tc.name

\* Toolchain::as_dist
as_dist(tc) == IF tc.kind = "dist" THEN Some(tc) ELSE None

\* what rustup may print, on either stream
RustupLines ==
    { [stream |-> s, line |-> l] :
        s \in {"stdout", "stderr"},
        l \in { "error: toolchain 'stable' is not installed",
                "error: toolchain is not installed",
                "error: toolchain 'stable' is not installed.",
                "x86_64-unknown-linux-gnu",
                "" } }
RustupOutputs == SeqsUpTo(RustupLines, 2)
RustupResults == {"Ok", "ExecutionFailed", "Timeout"}

TcRet(kind, list) == [kind |-> kind, list |-> list]

\* the closure list_rustup_things passes to process_lines, over all the lines
RECURSIVE not_installed(_)
not_installed(lines) ==
    IF lines = <<>> THEN FALSE
    ELSE LET line == Head(lines).line
         IN  \/ /\ starts_with(line, "error: toolchain ")
                /\ ends_with(line, " is not installed")
             \/ not_installed(Tail(lines))

\* ProcessOutput::stdout_lines without the empty ones
stdout_lines(lines) ==
    LET out == SelectSeq(lines, LAMBDA l : l.stream = "stdout" /\ l.line # "")
    IN  [i \in 1..Len(out) |-> out[i].line]

ListResult_flag(flag, result, lines) ==
    IF flag THEN TcRet("NotInstalled", <<>>)
    ELSE IF result = "Ok" THEN TcRet("Ok", stdout_lines(lines))
    ELSE TcRet("Context", <<>>)

\* the match on the result of run_capture
ListResult(flag, result, lines) ==
    IF result = "Ok" THEN TcRet("Ok", stdout_lines(lines))
    ELSE IF flag THEN TcRet("NotInstalled", <<>>)
    ELSE TcRet("Context", <<>>)

\* Toolchain::change_rustup_thing: the commands run and the value returned
change_rustup_thing(tc, action, thing, name, result) ==
    IF tc.kind = "ci"
    THEN [runs |-> <<>>, ret |-> TcRet("Message", <<>>)]
    ELSE [runs |-> << <<thing, action, "--toolchain", rustup_name(tc), name>> >>,
          ret |-> IF result = "Ok" THEN TcRet("Ok", <<>>) ELSE TcRet("Context", <<>>)]

\* Toolchain::list_rustup_things
list_rustup_things(tc, thing, lines, result) ==
    IF as_dist(tc) = None
    THEN [runs |-> <<>>, ret |-> TcRet("UnsupportedOperation", <<>>)]
    ELSE [runs |-> << <<thing, "list", "--installed", "--toolchain", as_dist(tc)[1].name>> >>,
          ret |-> ListResult(not_installed(lines), result, lines)]

\* a call of one of the four methods that change what is installed
ChangeCall(op, action, thing) ==
    /\ \E tc \in Toolchains, name \in ThingNames, result \in RustupResults :
         LET call == change_rustup_thing(tc, action, thing, name, result)
         IN  /\ tcCall' = [op |-> op, toolchain |-> tc, name |-> name, lines |-> <<>>,
                           res |-> IF call.runs = <<>> THEN "none" ELSE result]
             /\ rustupRuns' = call.runs
             /\ tcRet' = call.ret
    /\ UNCHANGED notToolchain

AddComponent == ChangeCall("add_component", "add", "component")

RemoveComponent == ChangeCall("remove_component", "remove", "component")

AddTarget == ChangeCall("add_target", "add", "target")

RemoveTarget == ChangeCall("remove_target", "remove", "target")

\* Toolchain::installed_targets
InstalledTargets ==
    /\ \E tc \in Toolchains, lines \in RustupOutputs, result \in RustupResults :
         LET call == list_rustup_things(tc, "target", lines, result)
         IN  /\ call.runs = <<>> => lines = <<>> /\ result = "Ok"
             /\ tcCall' = [op |-> "installed_targets", toolchain |-> tc, name |-> "none",
                           lines |-> lines,
                           res |-> IF call.runs = <<>> THEN "none" ELSE result]
             /\ rustupRuns' = call.runs
             /\ tcRet' = call.ret
    /\ UNCHANGED notToolchain

NextToolchain ==
    \/ AddComponent
    \/ RemoveComponent
    \/ AddTarget
    \/ RemoveTarget
    \/ InstalledTargets

SpecToolchain == InitBuild /\ [][NextToolchain]_vars

\* ------------------------------------------------------------------
\* Installed toolchains: list_installed_toolchains of toolchain.rs
\* ------------------------------------------------------------------

\* Toolchain::dist
dist(name) == [kind |-> "dist", name |-> name, alt |-> FALSE]

\* Toolchain::ci
ci(sha, alt) == [kind |-> "ci", name |-> sha, alt |-> alt]

\* the orders in which read_dir may yield the names
ReadDirOrders ==
    { <<"stable", "stage1", "0a1b2c", "0a1b2c-alt">>,
      <<"0a1b2c-alt", "0a1b2c", "stage1", "stable">> }

\* std::fs::read_dir of toolchains/: the entries that exist, in one order
read_dir(home, order) == SelectSeq(order, LAMBDA n : home[n].kind # "none")

IsDist_symlink(entry) == entry.kind = "symlink"

\* entry.file_type()?.is_symlink() || update_hashes.join(&name).exists()
IsDist(entry) == entry.kind = "symlink" \/ entry.hash

\* the toolchains one entry adds to the result; without the feature
\* unstable-toolchain-ci the else branch is compiled to nothing
PushEntry(name, entry, feature) ==
    IF IsDist(entry) THEN <<dist(name)>>
    ELSE IF feature
    THEN IF ends_with(name, "-alt")
         THEN <<ci(SubSeq(name, 1, Len(name) - 4), TRUE)>>
         ELSE <<ci(name, FALSE)>>
    ELSE <<>>

\* the loop of list_installed_toolchains over the entries left
RECURSIVE list_installed_toolchains(_, _, _)
list_installed_toolchains(home, entries, feature) ==
    IF entries = <<>> THEN <<>>
    ELSE PushEntry(Head(entries), home[Head(entries)], feature)
         \o list_installed_toolchains(home, Tail(entries), feature)

\* a change of the rustup home makes the last listing stale
Unlisted ==
    /\ listCall' = [ci |-> FALSE, entries |-> <<>>, err |-> "none"]
    /\ listRet' = [kind |-> "none", list |-> <<>>]

\* a toolchain directory appears below toolchains/
CreateToolchainDir ==
    /\ \E n \in ToolchainNames :
         /\ rustupHome[n].kind = "none"
         /\ rustupHome' = [rustupHome EXCEPT ![n].kind = "dir"]
    /\ Unlisted
    /\ UNCHANGED notHome

\* rustup records the hash of an installed dist toolchain
WriteUpdateHash ==
    /\ \E n \in ToolchainNames :
         /\ ~rustupHome[n].hash
         /\ rustupHome' = [rustupHome EXCEPT ![n].hash = TRUE]
    /\ Unlisted
    /\ UNCHANGED notHome

\* rustup toolchain link: the entry is a symbolic link
SymlinkToolchain ==
    /\ \E n \in ToolchainNames :
         /\ rustupHome[n].kind = "none"
         /\ rustupHome' = [rustupHome EXCEPT ![n].kind = "symlink"]
    /\ Unlisted
    /\ UNCHANGED notHome

\* a call of list_installed_toolchains, in a build with or without the feature
ListInstalledToolchains ==
    /\ \E feature \in BOOLEAN, order \in ReadDirOrders, err \in {"none", "read_dir", "entry"} :
         LET entries == read_dir(rustupHome, order)
         IN  /\ err = "entry" => entries # <<>>
             /\ listCall' = [ci |-> feature, entries |-> entries, err |-> err]
             /\ listRet' = IF err # "none" THEN [kind |-> "Err", list |-> <<>>]
                           ELSE [kind |-> "Ok",
                                 list |-> list_installed_toolchains(rustupHome, entries, feature)]
    /\ UNCHANGED <<notHome, rustupHome>>

NextHome ==
    \/ CreateToolchainDir
    \/ WriteUpdateHash
    \/ SymlinkToolchain
    \/ ListInstalledToolchains

SpecHome == InitBuild /\ [][NextHome]_vars

\* ------------------------------------------------------------------
\* Launching a Command: Command::run_inner of cmd/mod.rs and
\* SandboxBuilder::create of cmd/sandbox.rs
\* ------------------------------------------------------------------

MaxEnv == 2              \* calls of Command::env by the caller

\* paths are the sequences of their components; /link is a symbolic link to /mnt
\* and the workspace was opened as /link/ws
WsCargoHome == <<"link", "ws", "cargo-home">>
WsRustupHome == <<"link", "ws", "rustup-home">>
BuildSourceDir == <<"link", "ws", "builds", "b", "source">>
BuildTargetDir == <<"link", "ws", "builds", "b", "target">>
UserDir == <<"data">>
CurrentDir == <<"cwd">>

\* container_dirs of cmd/mod.rs
WORK_DIR == <<"opt", "rustwide", "workdir">>
TARGET_DIR == <<"opt", "rustwide", "target">>
CARGO_HOME == <<"opt", "rustwide", "cargo-home">>
RUSTUP_HOME == <<"opt", "rustwide", "rustup-home">>

normalize_path_asis(p) == p

\* utils::normalize_path: std::fs::canonicalize resolves the symbolic link
normalize_path(p) ==
    IF Len(p) >= 1 /\ p[1] = "link" THEN <<"mnt">> \o Tail(p) ELSE p

\* Path::strip_prefix
strip_prefix(p, base) ==
    IF Len(base) <= Len(p) /\ SubSeq(p, 1, Len(base)) = base
    THEN Some(SubSeq(p, Len(base) + 1, Len(p)))
    ELSE None

\* the mounts of the container rustwide itself runs in, as docker reports them
HostMounts ==
    { [source |-> <<"host">>, destination |-> <<"mnt">>],
      [source |-> <<"host", "b">>, destination |-> <<"mnt", "ws", "builds">>],
      [source |-> <<"srv">>, destination |-> <<"link", "ws">>],
      [source |-> <<"x">>, destination |-> <<"other">>] }
MountTables == SeqsUpTo(HostMounts, 2)

MountConfig(host_path, sandbox_path, perm, creatable) ==
    [host_path |-> host_path, sandbox_path |-> sandbox_path, perm |-> perm,
     creatable |-> creatable]

\* the mounts a caller may have put on the SandboxBuilder
UserMounts ==
    { <<>>,
      <<MountConfig(UserDir, <<"data">>, "ReadWrite", TRUE)>>,
      <<MountConfig(UserDir, <<"data">>, "ReadOnly", FALSE)>> }

EnvNames == {"CARGO_HOME", "RUSTUP_HOME", "SOURCE_DIR", "MY_VAR"}

\* MountConfig::host_path, over the mounts of the table left
RECURSIVE rebase(_, _)
rebase(inside_container_path, mounts) ==
    IF mounts = <<>> THEN None
    ELSE LET dest == normalize_path(Head(mounts).destination)
             shared == strip_prefix(inside_container_path, dest)
         IN  IF shared # None
             THEN Some(Head(mounts).source \o shared[1])
             ELSE rebase(inside_container_path, Tail(mounts))

\* MountConfig::host_path: None stands for WorkspaceNotMountedCorrectly
host_path(mount, current) ==
    IF current # None
    THEN rebase(normalize_path(mount.host_path), current[1])
    ELSE Some(normalize_path(mount.host_path))

\* SandboxBuilder::create, the loop over the mounts left: the -v arguments or
\* the error that ends it
RECURSIVE volume_args(_, _, _)
volume_args(mounts, current, args) ==
    IF mounts = <<>> THEN [err |-> "none", volumes |-> args]
    ELSE LET mount == Head(mounts)
         IN  IF ~mount.creatable THEN [err |-> "IO", volumes |-> args]
             ELSE IF host_path(mount, current) = None
             THEN [err |-> "WorkspaceNotMountedCorrectly", volumes |-> args]
             ELSE volume_args(Tail(mounts), current,
                              Append(args, [src |-> host_path(mount, current)[1],
                                            dst |-> mount.sandbox_path,
                                            perm |-> IF mount.perm = "ReadWrite"
                                                     THEN "rw" ELSE "ro"]))

\* the directory the command runs in: Command.cd, or "."
SourceDirOf(cfg) == IF cfg.build THEN BuildSourceDir ELSE CurrentDir

\* run_inner, sandboxed: the calls of SandboxBuilder::env in their order
SandboxEnv(cfg) ==
    << <<"SOURCE_DIR", "/opt/rustwide/workdir">> >>
    \o cfg.env
    \o << <<"CARGO_HOME", "/opt/rustwide/cargo-home">>,
          <<"RUSTUP_HOME", "/opt/rustwide/rustup-home">> >>

CargoHomeMount_rw(cfg) == MountConfig(WsCargoHome, CARGO_HOME, "ReadWrite", TRUE)

\* the mount of the cargo home, of the kind the Command carries
CargoHomeMount(cfg) ==
    MountConfig(WsCargoHome, CARGO_HOME,
                IF cfg.rw THEN "ReadWrite" ELSE "ReadOnly", TRUE)

\* run_inner, sandboxed: the calls of SandboxBuilder::mount in their order
SandboxMounts(cfg) ==
    cfg.mounts
    \o << MountConfig(SourceDirOf(cfg), WORK_DIR, "ReadOnly", TRUE),
          CargoHomeMount(cfg),
          MountConfig(WsRustupHome, RUSTUP_HOME, "ReadOnly", TRUE) >>

\* run_inner, not sandboxed: the calls of cmd.env in their order
ProcessEnv(cfg) ==
    (IF cfg.managed
     THEN << <<"CARGO_HOME", "/mnt/ws/cargo-home">>,
             <<"RUSTUP_HOME", "/mnt/ws/rustup-home">> >>
     ELSE <<>>)
    \o cfg.env

\* Workspace initialization finds the container rustwide runs in, or none
WorkspaceInit ==
    /\ cmdCfg.st = "none"
    /\ wsContainer = None
    /\ \E host_mounts \in MountTables : wsContainer' = Some(host_mounts)
    /\ UNCHANGED <<notLaunch, cmdCfg, prevRw, launch, launchRet>>

\* Command::new, Command::new_sandboxed on a builder of the caller, or Build::cmd
CommandNew ==
    /\ cmdCfg.st \in {"none", "run"}
    /\ \E sandbox \in BOOLEAN, managed \in BOOLEAN, build \in BOOLEAN,
          mounts \in UserMounts :
         /\ build => sandbox
         /\ ~sandbox => mounts = <<>>
         /\ cmdCfg' = [st |-> "new", sandboxed |-> sandbox, managed |-> managed,
                       build |-> build, rw |-> FALSE,
                       env |-> IF build
                               THEN << <<"CARGO_TARGET_DIR", "/opt/rustwide/target">> >>
                               ELSE <<>>,
                       mounts |-> IF build
                                  THEN Append(mounts, MountConfig(BuildTargetDir, TARGET_DIR,
                                                                  "ReadWrite", TRUE))
                                  ELSE mounts]
    /\ prevRw' = cmdCfg.rw
    /\ launch' = NoLaunch
    /\ launchRet' = "none"
    /\ UNCHANGED <<notLaunch, wsContainer>>

\* Command::rw_cargo_home
RwCargoHome ==
    /\ cmdCfg.st = "new"
    /\ ~cmdCfg.rw
    /\ cmdCfg' = [cmdCfg EXCEPT !.rw = TRUE]
    /\ UNCHANGED <<notLaunch, prevRw, wsContainer, launch, launchRet>>

\* Command::env, called by the caller
Env ==
    /\ cmdCfg.st = "new"
    /\ Len(SelectSeq(cmdCfg.env, LAMBDA kv : kv[2] = "user")) < MaxEnv
    /\ \E key \in EnvNames : cmdCfg' = [cmdCfg EXCEPT !.env = Append(@, <<key, "user">>)]
    /\ UNCHANGED <<notLaunch, prevRw, wsContainer, launch, launchRet>>

\* Command::run_inner up to the start of the process or to docker create
RunInner ==
    /\ cmdCfg.st = "new"
    /\ cmdCfg' = [cmdCfg EXCEPT !.st = "run"]
    /\ IF cmdCfg.sandboxed
       THEN LET args == volume_args(SandboxMounts(cmdCfg), wsContainer, <<>>)
            IN  IF args.err # "none"
                THEN /\ launch' = NoLaunch
                     /\ launchRet' = args.err
                ELSE /\ launch' = [kind |-> "docker create", env |-> SandboxEnv(cmdCfg),
                                   volumes |-> args.volumes]
                     /\ \E res \in {"Ok", "ExecutionFailed"} : launchRet' = res
       ELSE /\ launch' = [kind |-> "process", env |-> ProcessEnv(cmdCfg), volumes |-> <<>>]
            /\ \E res \in {"Ok", "ExecutionFailed"} : launchRet' = res
    /\ UNCHANGED <<notLaunch, prevRw, wsContainer>>

NextLaunch ==
    \/ WorkspaceInit
    \/ CommandNew
    \/ RwCargoHome
    \/ Env
    \/ RunInner

SpecLaunch == InitBuild /\ [][NextLaunch]_vars

\* ------------------------------------------------------------------
\* Tools: install of tools/mod.rs
\* ------------------------------------------------------------------

INSTALLABLE_TOOLS ==
    <<"rustup", "cargo-install-update", "rustup-toolchain-install-master",
      "git-credential-null">>

ToolEntry(tool, op, res) == [tool |-> tool, op |-> op, res |-> res]

\* the place of a tool in the registry
ToolIndex(tool) == CHOOSE i \in DOMAIN INSTALLABLE_TOOLS : INSTALLABLE_TOOLS[i] = tool

\* the tool the loop of install is at
NextTool ==
    IF toolLog = <<>> THEN 1 ELSE ToolIndex(toolLog[Len(toolLog)].tool) + 1

StillMissing_never(found) == FALSE

\* if !tool.is_installed(workspace)? after the install
StillMissing(found) == ~found

\* what install returns after a tool went through: the loop goes on, or ends
AfterTool(i) == IF i = Len(INSTALLABLE_TOOLS) THEN "Ok" ELSE "running"

\* a binary appears in or disappears from cargo-home/bin while no install runs
ToolBinary ==
    /\ toolRet # "running"
    /\ \E tool \in {INSTALLABLE_TOOLS[i] : i \in DOMAIN INSTALLABLE_TOOLS} :
         bins' = IF tool \in bins THEN bins \ {tool} ELSE bins \cup {tool}
    /\ UNCHANGED <<notTools, toolLog, toolRet>>

\* tools::install is called
ToolsInstall ==
    /\ toolRet # "running"
    /\ toolLog' = <<>>
    /\ toolRet' = "running"
    /\ UNCHANGED <<notTools, bins>>

\* one turn of the loop of tools::install
InstallTool ==
    /\ toolRet = "running"
    /\ LET i == NextTool
           tool == INSTALLABLE_TOOLS[i]
           found == tool \in bins
       IN  \/ \* is_installed fails
              /\ toolLog' = Append(toolLog, ToolEntry(tool, "is_installed", "Err"))
              /\ toolRet' = "Err"
              /\ UNCHANGED bins
           \/ \* the tool is installed: update it
              /\ found
              /\ \E ok \in BOOLEAN :
                   /\ toolLog' = toolLog \o
                        << ToolEntry(tool, "is_installed", "true"),
                           ToolEntry(tool, "update", IF ok THEN "Ok" ELSE "Err") >>
                   /\ toolRet' = IF ok THEN AfterTool(i) ELSE "Err"
              /\ UNCHANGED bins
           \/ \* the tool is missing and its install fails
              /\ ~found
              /\ toolLog' = toolLog \o
                   << ToolEntry(tool, "is_installed", "false"),
                      ToolEntry(tool, "install", "Err") >>
              /\ toolRet' = "Err"
              /\ UNCHANGED bins
           \/ \* the tool is missing, its install returns, the second check fails
              /\ ~found
              /\ \E works \in BOOLEAN :
                   bins' = IF works THEN bins \cup {tool} ELSE bins
              /\ toolLog' = toolLog \o
                   << ToolEntry(tool, "is_installed", "false"),
                      ToolEntry(tool, "install", "Ok"),
                      ToolEntry(tool, "is_installed", "Err") >>
              /\ toolRet' = "Err"
           \/ \* the tool is missing, its install returns, the tool is looked for again
              /\ ~found
              /\ \E works \in BOOLEAN :
                   /\ bins' = IF works THEN bins \cup {tool} ELSE bins
                   /\ toolLog' = toolLog \o
                        << ToolEntry(tool, "is_installed", "false"),
                           ToolEntry(tool, "install", "Ok"),
                           ToolEntry(tool, "is_installed", IF works THEN "true" ELSE "false") >>
                   /\ toolRet' = IF StillMissing(works) THEN "Err" ELSE AfterTool(i)
    /\ UNCHANGED notTools

NextTools ==
    \/ ToolBinary
    \/ ToolsInstall
    \/ InstallTool

SpecTools == InitBuild /\ [][NextTools]_vars

\* ------------------------------------------------------------------
\* Registry packages: crates/registry.rs
\* ------------------------------------------------------------------

\* RegistryCrate::cache_path below <cache>/<registry-key>-sources/
cache_path(krate) ==
    krate.name \o "/" \o krate.name \o "-" \o krate.version \o ".crate"

\* purge_from_cache: what is left at the path
RemoveFile(removed, file) == IF removed THEN "none" ELSE file

\* File::create makes the file, write_to fills it as far as it gets; the
\* BufWriter is dropped without a flush, whose error is then lost
Written(write) == IF write = "Ok" THEN "full" ELSE "partial"

\* RegistryCrate::fetch: the file at cache_path and the value returned
fetch(file, mkdir, http, create, write) ==
    IF file # "none" THEN [file |-> file, ret |-> "Ok"]
    ELSE IF ~mkdir THEN [file |-> file, ret |-> "Err"]
    ELSE IF http # "Ok" THEN [file |-> file, ret |-> "Err"]
    ELSE IF ~create THEN [file |-> file, ret |-> "Err"]
    ELSE [file |-> Written(write), ret |-> IF write = "Err" THEN "Err" ELSE "Ok"]

RegCall(op, krate, http, write) == [op |-> op, krate |-> krate, http |-> http, write |-> write]

\* RegistryCrate::fetch
RegistryFetch ==
    /\ \E krate \in RegCrates, mkdir \in BOOLEAN, create \in BOOLEAN,
          http \in {"Ok", "send", "status"}, write \in {"Ok", "Err", "flush"} :
         LET path == cache_path(krate)
             reached == cacheFile[path] = "none" /\ mkdir
             res == fetch(cacheFile[path], mkdir, http, create, write)
         IN  /\ ~reached => http = "Ok"
             /\ ~(reached /\ http = "Ok" /\ create) => write = "Ok"
             /\ ~(reached /\ http = "Ok") => create
             /\ cacheFile[path] # "none" => mkdir
             /\ cacheFile' = [cacheFile EXCEPT ![path] = res.file]
             /\ regRet' = res.ret
             /\ regCall' = RegCall("fetch", krate,
                                   IF reached THEN http ELSE "none",
                                   IF reached /\ http = "Ok" /\ create THEN write ELSE "none")
             /\ fetched' = IF reached /\ http = "Ok" /\ create /\ write = "Ok"
                           THEN fetched \cup {krate} ELSE fetched
    /\ UNCHANGED notRegistry

\* RegistryCrate::purge_from_cache
RegistryPurge ==
    /\ \E krate \in RegCrates, removed \in BOOLEAN :
         LET path == cache_path(krate)
         IN  /\ cacheFile[path] = "none" => removed
             /\ cacheFile' = [cacheFile EXCEPT ![path] = RemoveFile(removed, @)]
             /\ regRet' = IF removed THEN "Ok" ELSE "Err"
             /\ regCall' = RegCall("purge_from_cache", krate, "none", "none")
    /\ UNCHANGED <<notRegistry, fetched>>

\* RegistryCrate::copy_source_to: the archive is opened and unpacked
RegistryCopySourceTo ==
    /\ \E krate \in RegCrates :
         /\ regRet' = IF cacheFile[cache_path(krate)] = "full" THEN "Ok" ELSE "Err"
         /\ regCall' = RegCall("copy_source_to", krate, "none", "none")
    /\ UNCHANGED <<notRegistry, cacheFile, fetched>>

NextRegistry ==
    \/ RegistryFetch
    \/ RegistryPurge
    \/ RegistryCopySourceTo

SpecRegistry == InitBuild /\ [][NextRegistry]_vars


\* ================================================================ claims
\* run_inner has returned for the executed command
Returned == cmdRes.kind # "none"
TimerFired == idleKill # "none" \/ wallKill # "none"
TimerKinds == {"NoOutputFor", "Timeout", "KillAfterTimeoutFailed"}

\* the lines of one stream, in the order asked for
RECURSIVE OfKind(_, _)
OfKind(tagged, kind) ==
    IF tagged = <<>> THEN <<>>
    ELSE IF Head(tagged)[1] = kind
           THEN <<Head(tagged)[2]>> \o OfKind(Tail(tagged), kind)
           ELSE OfKind(Tail(tagged), kind)

\* ------------------------------------------------------------------- C1
\* C1 as stated: when a sandboxed run whose container was created is over
\* (returned or unwound), `docker rm -f` has been issued for the container
\* and the container no longer exists.
C1_AsStated ==
    (phase = "done" /\ container # "none")
        => (deleted # "no" /\ container = "removed")

\* C1 amended: when a sandboxed run whose container was created is over, on
\* every exit path (value, error, panic), `docker rm -f` has been issued for
\* the container; the container is gone whenever that removal succeeded, and
\* before the removal is issued the call is still in progress.
C1_DeleteIssued ==
    /\ (phase = "done" /\ container # "none")
           => (deleted # "no" /\ (deleted = "ok" => container = "removed"))
    /\ (container = "exists" /\ deleted = "no") => phase # "done"

\* the panic path: the unwinding run removed its container
C1_Witness ==
    phase = "done" /\ panicked /\ deleted = "ok" /\ container = "removed"

C3_AsStated ==
    (Returned /\ idleKill # "none" /\ EffNoOutput < EffTimeout)
        => cmdRes = ResErr(NoOutputFor(EffNoOutput))

\* C3 amended: while lines are being read no silence lasts longer than I
\* without the idle timer expiring; when it expires a kill of the child's
\* pid is issued, and the run fails with NoOutputFor(I) if that kill
\* succeeded and with KillAfterTimeoutFailed if it did not, never with
\* Timeout.
C3_IdleTimeout ==
    /\ (phase = "running" /\ output.st = "pending") => now <= deadline
    /\ (Returned /\ idleKill = "ok") => cmdRes = ResErr(NoOutputFor(EffNoOutput))
    /\ (Returned /\ idleKill = "failed")
           => cmdRes = ResErr(KillAfterTimeoutFailed(child_id))
    /\ (Returned /\ idleKill # "none") => cmdRes.kind # "Timeout"

\* exactly one line, then silence for I < T
C3_Witness ==
    /\ Returned /\ nRead = 1 /\ idleKill = "ok"
    /\ EffNoOutput < EffTimeout
    /\ cmdRes = ResErr(NoOutputFor(EffNoOutput))


\* ------------------------------------------------------------------- C4
\* C4 as stated: when the wall-clock timer expires (the child is still
\* running after T) the run fails with Timeout(T).
C4_AsStated ==
    (Returned /\ wallKill # "none") => cmdRes = ResErr(Timeout(EffTimeout))

\* C4 amended: when the wall-clock timer expires a kill of the child's pid
\* is issued; the run fails with Timeout(T) if that kill succeeded and the
\* output stream ended without an error of its own, also when lines kept
\* the idle timer from expiring; if the output stream ended with an error
\* (NoOutputFor from the idle timer, as for a silent child when I = T; a
\* failed kill; a read error; Timeout raised by a line read after T) that
\* error is returned; otherwise a failed kill gives KillAfterTimeoutFailed.
C4_WallTimeout ==
    /\ (phase = "running" /\ child.st = "pending") => now <= EffTimeout
    /\ (Returned /\ wallKill # "none") =>
        /\ output.st = "err" => cmdRes = ResErr(output.err)
        /\ (output.st = "ok" /\ wallKill = "ok")
               => cmdRes = ResErr(Timeout(EffTimeout))
        /\ (output.st = "ok" /\ wallKill = "failed")
               => cmdRes = ResErr(KillAfterTimeoutFailed(child_id))

\* the child wrote lines more often than I < T, the idle timer never
\* expired, and the wall-clock timer killed it
C4_Witness ==
    /\ Returned /\ wallKill = "ok" /\ idleKill = "none"
    /\ nRead = 2 /\ output.st = "ok"
    /\ EffNoOutput < EffTimeout
    /\ cmdRes = ResErr(Timeout(EffTimeout))

\* ------------------------------------------------------------------- C5
\* C5, its last clause, for the runs in which no kill succeeded: if a timer
\* fired and the kill of the child's pid failed, the run returns neither
\* NoOutputFor nor Timeout.
C5_KillFailure ==
    (/\ Returned
     /\ idleKill = "failed" \/ wallKill = "failed"
     /\ idleKill # "ok" /\ wallKill # "ok")
        => cmdRes.kind \notin {"NoOutputFor", "Timeout"}

\* the idle timer's failed kill is reported as the claim says
C5_Witness ==
    /\ Returned /\ idleKill = "failed"
    /\ cmdRes = ResErr(KillAfterTimeoutFailed(child_id))

\* ------------------------------------------------------------------- C6
\* C6 as stated: ExecutionFailed carries the stderr lines joined with
\* newlines, with and without capture.
C6_AsStated ==
    (Returned /\ cmdRes.kind = "ExecutionFailed")
        => cmdRes.text = join(OfKind(emitted, "stderr"), "\n")

\* C6 amended: when the child exits with a nonzero status (and neither the
\* output stream nor a timer failed the run) the run fails with
\* ExecutionFailed carrying that status; its stderr field is the
\* post-transformation stderr lines joined with newlines when the caller
\* used run_capture(), and the empty string when the caller used run().
C6_ExecutionFailed ==
    /\ (Returned /\ output.st = "ok" /\ child.st = "ok" /\ child.status # 0)
           => (cmdRes.kind = "ExecutionFailed" /\ cmdRes.status = child.status)
    /\ (Returned /\ cmdRes.kind = "ExecutionFailed") =>
           cmdRes.text = IF capture THEN join(OfKind(emitted, "stderr"), "\n") ELSE ""

\* two stderr lines captured and joined
C6_Witness ==
    /\ Returned /\ capture /\ cmdRes.kind = "ExecutionFailed"
    /\ OfKind(emitted, "stderr") = <<"l1", "l2">>
    /\ cmdRes.text = "l1\nl2"


\* ------------------------------------------------------------------- C7
\* C7 as stated: after `docker start -a` has ended the container is
\* inspected; with State.OOMKilled true the run returns SandboxOOM, after a
\* successful and after a failed start command alike; with State.OOMKilled
\* false the start command's result is returned unchanged.
C7_AsStated ==
    (phase = "done" /\ inspected = "ok")
        => ret = IF oom THEN SandboxOOM ELSE cmdRes

\* C7 amended: after `docker start -a` has ended the container is always
\* inspected; when the inspection succeeds and State.OOMKilled is true the
\* run returns SandboxOOM if the start command had succeeded or had failed
\* with ExecutionFailed, and the start command's own error if it had failed
\* otherwise (Timeout, NoOutputFor, KillAfterTimeoutFailed, I/O); when
\* State.OOMKilled is false the start command's result is returned unchanged.
C7_OOMCheck ==
    /\ (phase \in {"delete", "done"} /\ Returned) => inspected # "no"
    /\ (phase = "done" /\ inspected = "ok" /\ oom
          /\ cmdRes.kind \in {"Ok", "ExecutionFailed"}) => ret = SandboxOOM
    /\ (phase = "done" /\ inspected = "ok" /\ oom
          /\ cmdRes.kind \notin {"Ok", "ExecutionFailed"}) => ret = cmdRes
    /\ (phase = "done" /\ inspected = "ok" /\ ~oom) => ret = cmdRes

\* an otherwise successful start command reported as SandboxOOM
C7_Witness ==
    /\ phase = "done" /\ inspected = "ok" /\ oom
    /\ cmdRes.kind = "Ok" /\ ret = SandboxOOM

\* ------------------------------------------------------------------- C8
\* C8 as stated: the transformer is called once for each line read, the
\* lines emitted for a line are those its last action asks for, and the
\* action state is back to Original after every line.
C8_AsStated ==
    process_lines =>
        /\ nCalls = nRead
        /\ lastLine.lines = lastLine.expected
        /\ actions = Original

\* C8 amended: the transformer is called exactly once for each line read
\* before the wall-clock time T has elapsed (a line read later is not handed
\* to it: it ends the stream with Timeout); the lines emitted for a line are
\* the line itself if the transformer took no action, the replacement lines
\* if replace_with_lines was its last action, none if remove_line was; the
\* action state is Original again after every line, so no action carries
\* over to a later line.
C8_Transformer ==
    LET past == IF output.st = "err" /\ output.err.kind = "Timeout" THEN 1 ELSE 0 IN
    /\ process_lines => nCalls = nRead - past
    /\ ~process_lines =>
          (nCalls = 0 /\ (lastLine = NoLine \/ lastLine.lines = <<lastLine.line>>))
    /\ lastLine.lines = lastLine.expected
    /\ actions = Original

\* the first line was removed, the second, left alone, is emitted as read
C8_Witness ==
    /\ process_lines /\ nRead = 2 /\ nCalls = 2
    /\ Len(emitted) = 1
    /\ lastLine.line = "l2" /\ lastLine.lines = <<"l2">>

\* ------------------------------------------------------------------- C9
\* what the log must hold for one emitted line
C9_Entry(e) == IF e[1] = "stdout" THEN "[stdout] " \o e[2] ELSE "[stderr] " \o e[2]

\* C9: with output logging enabled the log holds exactly the
\* post-transformation lines, in order, each prefixed "[stdout] " or
\* "[stderr] " after the stream it was read from (nothing for a removed
\* line, the replacement lines for a replaced one); with output logging
\* disabled it holds no output line.
C9_Logging ==
    logged = IF log_output
               THEN [i \in 1..Len(emitted) |-> C9_Entry(emitted[i])]
               ELSE <<>>

\* a stdout line was removed, then a stderr line replaced by two lines
C9_Witness ==
    /\ log_output /\ process_lines /\ nRead = 2
    /\ lastLine.kind = "stderr" /\ lastLine.line = "l2"
    /\ logged = <<"[stderr] r1", "[stderr] r2">>

\* ------------------------------------------------------------------ C10
\* C10: with capture enabled a successful run returns, for each stream, the
\* post-transformation lines of that stream in the order they were read,
\* however the two streams interleave, and no line of the other stream.
C10_Capture ==
    /\ capture => (stdout = OfKind(emitted, "stdout") /\ stderr = OfKind(emitted, "stderr"))
    /\ (Returned /\ cmdRes.kind = "Ok" /\ capture) =>
          /\ cmdRes.stdout = OfKind(emitted, "stdout")
          /\ cmdRes.stderr = OfKind(emitted, "stderr")

\* stderr was read first, then a stdout line that was replaced by two
C10_Witness ==
    /\ Returned /\ cmdRes.kind = "Ok" /\ capture
    /\ emitted = <<<<"stderr", "l1">>, <<"stdout", "r1">>, <<"stdout", "r2">>>>
    /\ cmdRes.stdout = <<"r1", "r2">> /\ cmdRes.stderr = <<"l1">>

\* ------------------------------------------------------------------ C11
\* C11: a step by which BuildDirectory::run returns Ok leaves source/
\* missing and target/ existing.
C11_SourceGoneTargetKept ==
    [][(pc # "idle" /\ pc' = "idle" /\ runRes'.kind = "Ok")
          => (~source'.exists /\ target'.exists)]_vars

C11_Witness ==
    /\ pc = "idle"
    /\ nRuns = 2
    /\ runRes.kind = "Ok"
    /\ closureSaw.called
    /\ ~source.exists
    /\ target.exists

\* ------------------------------------------------------------------ C12
\* C12: the closure only finds the source copied by its own run, whatever an
\* earlier run left in source/; and from the call of run to its return no
\* step removes target/ or anything an earlier run wrote into it.
C12_SourceRecreatedTargetKept ==
    [][/\ closureSaw'.called => closureSaw'.source.runs = {nRuns'}
       /\ (nRuns' # nRuns \/ pc \notin {"idle", "dropped"})
            => /\ target.exists => target'.exists
               /\ target.runs \subseteq target'.runs
               /\ targetAtStart'.runs \subseteq target'.runs
               /\ closureSaw'.called => targetAtStart'.runs \subseteq closureSaw'.target.runs]_vars

C12_Witness ==
    /\ pc = "idle"
    /\ nRuns = 2
    /\ closureSaw.called
    /\ closureSaw.source.runs = {2}
    /\ closureSaw.target.runs = {1}
    /\ 1 \in target.runs

C14_StepOrder ==
    LET order == <<"copy_source_to", "remove_override_files", "tweak_toml",
                   "validate_manifest", "capture_lockfile", "fetch_deps">>
    IN  /\ Len(steps) <= Len(order)
        /\ steps = SubSeq(order, 1, Len(steps))
        /\ prepRes.kind = "Ok" => steps = order
        /\ prepRes.kind \notin {"none", "Ok"}
             => (pc \in {"idle", "dropped"} /\ runRes = prepRes /\ ~closureSaw.called)
        /\ pc \in {"create_target", "closure", "remove_source"}
             => (steps = order /\ prepRes.kind = "Ok")
        /\ closureSaw.called => (steps = order /\ prepRes.kind = "Ok")

C14_Witness ==
    /\ closureSaw.called
    /\ Len(steps) = 6
    /\ cargoRuns = <<"metadata", "generate-lockfile", "fetch">>

\* ------------------------------------------------------------------ C15
\* C15 as stated: when the source copied has no Cargo.toml, no cargo command
\* is spawned and the preparation returns nothing but MissingCargoToml.
C15_AsStated ==
    (Len(steps) >= 2 /\ source.exists /\ source.runs = {nRuns} /\ source.manifest = "missing")
        => /\ cargoRuns = <<>>
           /\ prepRes.kind \in {"none", "MissingCargoToml"}

\* C15 amended: when the source copied has no Cargo.toml, no cargo command
\* is spawned, the closure is not entered, and the preparation returns
\* MissingCargoToml, or the I/O error of remove_override_files when the
\* removal of an override file failed.
C15_MissingCargoToml ==
    (Len(steps) >= 2 /\ source.exists /\ source.runs = {nRuns} /\ source.manifest = "missing")
        => /\ cargoRuns = <<>>
           /\ ~closureSaw.called
           /\ pc \in {"remove_override_files", "tweak_toml", "idle", "dropped"}
           /\ \/ prepRes.kind = "none" /\ pc \in {"remove_override_files", "tweak_toml"}
              \/ prepRes.kind = "MissingCargoToml" /\ Len(steps) = 3
              \/ prepRes.kind = "IO" /\ Len(steps) = 2 /\ source.overrides

C15_Witness ==
    /\ source.exists
    /\ source.manifest = "missing"
    /\ steps = <<"copy_source_to", "remove_override_files", "tweak_toml">>
    /\ prepRes.kind = "MissingCargoToml"
    /\ runRes.kind = "MissingCargoToml"

\* ------------------------------------------------------------------ C16
\* some line handed to `process` contains one of the needles
Seen(needles) ==
    \E i \in 1..Len(cargoSeen) : \E n \in needles : contains(cargoSeen[i][2], n)

\* some line handed to `process` contains one of the needles and none of
\* the needles of the rows above
SeenFirst(needles, above) ==
    \E i \in 1..Len(cargoSeen) :
        /\ \E n \in needles : contains(cargoSeen[i][2], n)
        /\ \A n \in above : ~contains(cargoSeen[i][2], n)

Row1 == {"failed to select a version for the requirement"}
Row2 == {"failed to load source for dependency", "no matching package named"}
Row3 == {"failed to parse manifest at", "error: invalid table header"}
Row4 == {"error: failed to parse lock file at"}

\* the error the classification table asks for
Classified ==
    IF Seen(Row1) THEN "YankedDependencies"
    ELSE IF Seen(Row2) THEN "MissingDependencies"
    ELSE IF Seen(Row3) THEN "BrokenDependencies"
    ELSE IF Seen(Row4) THEN "InvalidCargoLock"
    ELSE "none"

\* what run_command has to return for the lines seen and the command's result
C16_Returned ==
    pc = "returned"
        => /\ cmdRes.kind = "Ok" => cargoRet = OkUnit
           /\ (cmdRes.kind = "ExecutionFailed" /\ Classified # "none")
                => /\ cargoRet.kind = Classified
                   /\ cargoRet.text = join(OfKind(cargoSeen, "stderr"), "\n")
           /\ (cmdRes.kind # "Ok" /\ (cmdRes.kind # "ExecutionFailed" \/ Classified = "none"))
                => cargoRet = cmdRes

RECURSIVE Count(_, _)
Count(seq, x) ==
    IF seq = <<>> THEN 0
    ELSE (IF Head(seq) = x THEN 1 ELSE 0) + Count(Tail(seq), x)

\* C17: a preparation runs cargo fetch at most twice and generates the
\* lockfile at most once; when it returns the failure of cargo fetch for a
\* package that shipped its own Cargo.lock, it has regenerated the lockfile
\* and run cargo fetch a second time.
C17_FetchRetry ==
    /\ Count(cargoRuns, "fetch") <= 2
    /\ Count(cargoRuns, "generate-lockfile") <= 1
    /\ (Len(steps) = 6 /\ prepRes.kind \notin {"none", "Ok"} /\ source.exists
          /\ source.runs = {nRuns} /\ source.lock = "shipped")
         => (Count(cargoRuns, "fetch") = 2 /\ Count(cargoRuns, "generate-lockfile") = 1)

C17_Witness ==
    /\ Len(steps) = 6
    /\ prepRes.kind = "ExecutionFailed"
    /\ source.lock = "shipped"
    /\ cargoRuns = <<"metadata", "fetch">>

\* ---------------------------------------------------------------- C18
\* a call of tweak on a table an earlier call has returned
Retweak == nTweaks >= 1 /\ tweakRes = "ok" /\ nTweaks' = nTweaks + 1
\* the file the words of the specification name for an entry exists
FileExists(t, folder) ==
    IF t.path # NoKey THEN t.path \in files
    ELSE /\ t.name \notin {NoKey, NotStr}
         /\ (folder \o "/" \o t.name \o ".rs") \in files
\* none of the four transformations has anything to do on the original table
NeedsNoChange ==
    /\ \A i \in DOMAIN original.example.items :
           FileExists(original.example.items[i], "examples")
    /\ \A i \in DOMAIN original.test.items :
           FileExists(original.test.items[i], "tests")
    /\ "workspace" \notin original.package.keys
    /\ \A i \in DOMAIN original.cargo_features.items :
           original.cargo_features.items[i] \notin
               {Feature("publish-lockfile"), Feature("default-run")}
    /\ patches = <<>>
\* every entry of the three arrays has the type cargo asks for
WellTyped ==
    /\ \A i \in DOMAIN original.example.items :
           /\ original.example.items[i].is_table
           /\ original.example.items[i].name \notin {NoKey, NotStr}
    /\ \A i \in DOMAIN original.test.items :
           /\ original.test.items[i].is_table
           /\ original.test.items[i].name \notin {NoKey, NotStr}
    /\ \A i \in DOMAIN original.cargo_features.items :
           original.cargo_features.items[i].is_str

\* C18 as stated: a second tweak changes nothing, and a first tweak changes
\* nothing of a manifest in which every example and test file exists, that has
\* no package.workspace, lists neither unwanted feature and gets no patch.
C18_AsStated ==
    [][/\ Retweak => tweakRes' = "ok" /\ table' = table
       /\ nTweaks = 0 /\ tweakRes' = "ok" /\ NeedsNoChange => table' = original]_vars

\* C18: tweak applied to a table that tweak has returned returns it unchanged,
\* for every table, patch list and set of files; and a manifest that needs no
\* change and whose example, test and cargo-features entries are well typed
\* (tables with a string name, strings) is left equal to its input.
C18_Idempotent ==
    [][/\ Retweak => tweakRes' = "ok" /\ table' = table
       /\ nTweaks = 0 /\ tweakRes' = "ok" /\ NeedsNoChange /\ WellTyped
              => table' = original]_vars

\* the second tweak has returned a table the first one had changed in three steps
C18_Witness ==
    /\ nTweaks = 2
    /\ tweakRes = "ok"
    /\ patches # <<>>
    /\ table.patch # original.patch
    /\ table.package # original.package

\* ---------------------------------------------------------------- C19
\* the entries of an array whose file exists, in the order of the array
WithFile(value, folder) ==
    SelectSeq(value, LAMBDA t : FileExists(t, folder))
\* those of them that are tables with a string name
NamedWithFile(value, folder) ==
    SelectSeq(value, LAMBDA t :
        t.is_table /\ t.name \notin {NoKey, NotStr} /\ FileExists(t, folder))
Tweaked == nTweaks >= 1 /\ tweakRes = "ok"

\* C19 as stated: after the rewriting the example and the test array hold
\* exactly the original entries whose path, or default path, exists.
C19_AsStated ==
    Tweaked =>
        /\ original.example.kind = "array" =>
               table.example = TomlArray(WithFile(original.example.items, "examples"))
        /\ original.test.kind = "array" =>
               table.test = TomlArray(WithFile(original.test.items, "tests"))

\* C19: after the rewriting the example (resp. test) array holds exactly the
\* original entries, in their order and unchanged, that are tables with a string
\* name and whose path, or examples/<name>.rs (resp. tests/<name>.rs) without a
\* path, exists; every other entry is removed, and a key that is no array is
\* left alone.
C19_PruneMissing ==
    Tweaked =>
        /\ table.example =
               IF original.example.kind = "array"
               THEN TomlArray(NamedWithFile(original.example.items, "examples"))
               ELSE original.example
        /\ table.test =
               IF original.test.kind = "array"
               THEN TomlArray(NamedWithFile(original.test.items, "tests"))
               ELSE original.test

\* of two examples the first was kept for its default path, the second removed
C19_Witness ==
    /\ nTweaks = 1
    /\ tweakRes = "ok"
    /\ original.example = TomlArray(<<Target("a", NoKey), Target("b", NoKey)>>)
    /\ files = {"examples/a.rs"}
    /\ table.example = TomlArray(<<Target("a", NoKey)>>)

\* ---------------------------------------------------------------- C20
\* the feature is an entry of the original cargo-features
Listed(f) ==
    /\ original.cargo_features.kind = "array"
    /\ \E i \in DOMAIN original.cargo_features.items :
           original.cargo_features.items[i] = Feature(f)
\* the keys of the manifest the step may not touch
Untouched(t) ==
    [ example |-> t.example, test |-> t.test, patch |-> t.patch,
      dependencies |-> t.dependencies, kind |-> t.package.kind,
      keys |-> t.package.keys \ {"workspace", "publish-lockfile", "default-run"} ]
\* what the claim says of cargo-features and [package], but for the entries kept
ScrubbedAs(kept) ==
    /\ table.cargo_features =
           IF original.cargo_features.kind = "array"
           THEN TomlArray(kept)
           ELSE original.cargo_features
    /\ \A f \in {"publish-lockfile", "default-run"} :
           /\ f \in table.package.keys <=> f \in original.package.keys /\ ~Listed(f)
    /\ Untouched(remove_unwanted_cargo_features(original)) = Untouched(original)

\* C20 as stated: after the rewriting cargo-features holds every original entry
\* but publish-lockfile and default-run, in order; each of the two package keys
\* is removed iff its feature was listed; the step changes no other key.
C20_AsStated ==
    Tweaked =>
        ScrubbedAs(SelectSeq(original.cargo_features.items, LAMBDA key :
            key \notin {Feature("publish-lockfile"), Feature("default-run")}))

\* C20: after the rewriting cargo-features holds every original entry that is
\* a string other than publish-lockfile and default-run, in order (entries that
\* are no strings are dropped with the two); each of the two package keys is
\* removed iff its feature was listed; the step changes no other key.
C20_ScrubFeatures ==
    Tweaked =>
        ScrubbedAs(SelectSeq(original.cargo_features.items, LAMBDA key :
            key.is_str /\ key.s \notin {"publish-lockfile", "default-run"}))

\* default-run was listed after a feature that stays, and [package] had both keys
C20_Witness ==
    /\ nTweaks = 1
    /\ tweakRes = "ok"
    /\ original.cargo_features =
           TomlArray(<<Feature("edition2021"), Feature("default-run")>>)
    /\ original.package.keys = PackageKeys
    /\ table.cargo_features = TomlArray(<<Feature("edition2021")>>)
    /\ table.package.keys = {"name", "publish-lockfile"}

\* ---------------------------------------------------------------- C21
\* the table the last directive for a crate asks for
Directive(patch) ==
    IF patch.variant = "Git"
    THEN [present |-> TRUE, git |-> patch.uri, branch |-> patch.branch, path |-> NoKey]
    ELSE [present |-> TRUE, git |-> NoKey, branch |-> NoKey, path |-> patch.path]

\* C21: after a rewriting with patches, patch.crates-io.<name> is the {git, branch}
\* or {path} table of the last directive that names the crate, whatever was
\* there; the entries of other crates and every key but patch are as
\* apply_patches found them; without patches the patch key is left as it was.
C21_ApplyPatches ==
    Tweaked =>
        /\ patches = <<>> => table.patch = original.patch
        /\ patches # <<>> =>
            /\ table.patch.kind = "table"
            /\ table.patch.crates_io.kind = "table"
            /\ \A n \in PatchNames :
                   LET idx == {i \in DOMAIN patches : patches[i].name = n}
                   IN  table.patch.crates_io.deps[n] =
                          IF idx = {} THEN original.patch.crates_io.deps[n]
                          ELSE Directive(patches[CHOOSE i \in idx : \A j \in idx : j <= i])
        /\ [apply_patches(original, patches) EXCEPT !.patch = original.patch] = original

\* a Git and then a Path directive for a crate the manifest already patched
C21_Witness ==
    /\ nTweaks = 1
    /\ tweakRes = "ok"
    /\ patches = <<GitCratePatch("a", "https://x/a", "main"), PathCratePatch("a", "/patch/a")>>
    /\ original.patch.crates_io.deps["a"].path = "vendor/a"
    /\ table.patch.crates_io.deps["a"] =
           [present |-> TRUE, git |-> NoKey, branch |-> NoKey, path |-> "/patch/a"]
    /\ table.patch.crates_io.deps["b"] = NoDep

\* ---------------------------------------------------------------- C22
\* the callers that are executing their closure
InClosure == {p \in Procs : lpc[p] = "closure"}

\* C22: at no time are two callers of file_lock on the same path executing
\* their closures, and a caller executing its closure holds the lock.
C22_OneHolder ==
    /\ Cardinality(InClosure) <= 1
    /\ \A p \in InClosure : lock = p

\* a caller is in its closure while another one waits in lock_exclusive
C22_Witness ==
    \E p, q \in Procs :
        /\ lpc[p] = "closure"
        /\ lpc[q] = "blocked"
        /\ warned[q] = 1

\* ---------------------------------------------------------------- C23
\* C23: a caller that has left file_lock does not hold the lock, whether its
\* closure returned Ok, returned Err or panicked, and whether unlock failed;
\* the step that hands the result or the panic to the caller leaves the lock
\* released.
C23_Released ==
    [][\A p \in Procs :
          /\ lpc[p] \in {"left", "idle"} => lock # p
          /\ lockRet'[p] # lockRet[p] /\ lockRet'[p] \in {"Ok", "Err", "panic", "io"}
                 => lock' # p]_vars

\* a panic was resumed after an unlock that failed, the next caller has the lock
C23_Witness ==
    \E p, q \in Procs :
        /\ lockRet[p] = "panic"
        /\ lpc[p] = "left"
        /\ lpc[q] = "closure"
        /\ warned[q] = 1

Inspected ==
    /\ imageRet.kind \notin {"none"}
    /\ imageIn.size_limit # None
    /\ imageIn.manifest = "ok"

\* C25: with a size limit N the manifest is inspected first; when the layer
\* sizes sum to more than N the call returns SandboxImageTooLarge(sum) and no
\* docker pull was run; when they sum to N or less the pull was run.
C25_SizeLimit ==
    Inspected =>
        LET N == imageIn.size_limit[1]
            sum == LayerSum(imageIn.layers)
            pulls == {i \in DOMAIN dockerRuns : dockerRuns[i] = "pull"}
        IN  /\ Head(dockerRuns) = "manifest inspect"
            /\ sum > N => imageRet = ImageRet("SandboxImageTooLarge", sum) /\ pulls = {}
            /\ sum <= N => pulls # {}

\* layers of N + 1 bytes for a limit of N: too large, nothing pulled
C25_Witness ==
    /\ Inspected
    /\ imageIn.size_limit = Some(1)
    /\ imageIn.layers = <<1, 1>>
    /\ imageRet = ImageRet("SandboxImageTooLarge", 2)
    /\ dockerRuns = <<"manifest inspect">>

\* ---------------------------------------------------------------- C26
\* the line of the credential helper is among the lines of the last command
HelperQuit ==
    \E i \in DOMAIN gitCall.lines :
        gitCall.lines[i] = "fatal: credential helper 'x' told us to quit"

\* C26: a fetch of a Git package, by clone or by fetch, returns
\* PrivateGitRepository exactly when the git command failed and a line
\* `fatal: credential helper ... told us to quit` was seen; a failure without
\* the line is the error of the command, and a success is Ok with or without it.
C26_PrivateRepository ==
    gitCall.op \in {"clone", "fetch"} =>
        /\ gitCall.ret = "PrivateGitRepository" <=> gitCall.res # "Ok" /\ HelperQuit
        /\ gitCall.res # "Ok" /\ ~HelperQuit => gitCall.ret = gitCall.res
        /\ gitCall.res = "Ok" => gitCall.ret = "Ok"

\* the update of a cached mirror failed after the helper had quit
C26_Witness ==
    /\ gitCall.op = "fetch"
    /\ gitCall.res = "ExecutionFailed"
    /\ gitCall.lines = <<"fatal: repository 'x' not found",
                         "fatal: credential helper 'x' told us to quit">>
    /\ gitCall.ret = "PrivateGitRepository"

\* ---------------------------------------------------------------- C27
\* the step is a git_commit or a copy_source_to that gave a commit
ReadsCommit ==
    /\ gitCall' # gitCall
    /\ gitCall'.op \in {"git_commit", "copy_source_to"}
    /\ gitCall'.res = "Ok"
\* the step is a fetch that succeeded
Fetched ==
    /\ gitCall' # gitCall \/ mirror' # mirror
    /\ remote' = remote
    /\ gitCall'.op \in {"clone", "fetch"}
    /\ gitCall'.ret = "Ok"

\* C27 as stated: git_commit and copy_source_to give the head of the mirror,
\* which only a successful fetch changes, and which after a successful fetch
\* is the head of the repository.
C27_AsStated ==
    [][/\ ReadsCommit => gitCall'.commit = MirrorHead
       /\ mirror' # mirror => Fetched
       /\ Fetched => MirrorHead' = remote.tips[remote.head]]_vars

\* C27: git_commit and copy_source_to give the head of the mirror, which only
\* a successful fetch changes; after a successful fetch every branch of the
\* mirror is at the commit of the repository, and the head of the mirror is
\* that of the branch that was the default one when the mirror was cloned.
C27_MirrorHead ==
    [][/\ ReadsCommit => gitCall'.commit = MirrorHead
       /\ mirror' # mirror => Fetched
       /\ Fetched =>
             /\ mirror'.tips = remote.tips
             /\ mirror'.head = IF mirror.cloned THEN mirror.head ELSE remote.head
             /\ MirrorHead' = remote.tips[mirror'.head]]_vars

\* a build checked out the commit pushed before the last fetch, not the later one
C27_Witness ==
    /\ gitCall.op = "copy_source_to"
    /\ gitCall.res = "Ok"
    /\ gitCall.commit = 2
    /\ mirror.tips["main"] = 2
    /\ remote.tips["main"] = 3

\* ---------------------------------------------------------------- C28
\* the directory `target` at the top of the source, and what lies below it
UnderTopTarget(t, p) ==
    /\ Len(p) >= 1
    /\ p[1] = "target"
    /\ t[<<"target">>] = "dir"

\* C28: after a successful copy_source_to of a Local package, every file and
\* directory of the source is at the same path of the destination with the
\* same content, except the top-level directory `target` and everything below
\* it, which are not copied; a deeper `target` and a top-level file `target` are.
C28_CopyDir ==
    localRet = "Ok" =>
        \A p \in TreePaths :
            IF UnderTopTarget(localSrc, p)
            THEN localDest[p] = "none"
            ELSE localDest[p] = localSrc[p]

\* a copy that left out target/a.out and kept dir/target/bar
C28_Witness ==
    /\ localRet = "Ok"
    /\ localSrc[<<"target", "a.out">>] = "one"
    /\ localDest[<<"target">>] = "none"
    /\ localSrc[<<"dir", "target", "bar">>] = "two"
    /\ localDest[<<"dir", "target", "bar">>] = "two"
    /\ localDest[<<"foo">>] = "one"

\* ---------------------------------------------------------------- C29
\* the words of the rustup command line each of the four methods stands for
ThingOf(op) == IF op \in {"add_component", "remove_component"} THEN "component" ELSE "target"
ActionOf(op) == IF op \in {"add_component", "add_target"} THEN "add" ELSE "remove"
ChangeOps == {"add_component", "remove_component", "add_target", "remove_target"}

\* C29: add_component, remove_component, add_target and remove_target fail with
\* ToolchainError::UnsupportedOperation on a CI toolchain and run no rustup; on a
\* dist toolchain they run `rustup <component|target> <add|remove> --toolchain
\* <rustup-name> <name>`.
C29_Unsupported ==
    tcCall.op \in ChangeOps =>
        IF tcCall.toolchain.kind = "ci"
        THEN /\ tcRet.kind = "UnsupportedOperation"
             /\ rustupRuns = <<>>
        ELSE rustupRuns = << <<ThingOf(tcCall.op), ActionOf(tcCall.op), "--toolchain",
                               tcCall.toolchain.name, tcCall.name>> >>

\* add_target on a CI toolchain: refused without a rustup run, by a bare message
C29_Witness ==
    /\ tcCall.op = "add_target"
    /\ tcCall.toolchain.kind = "ci"
    /\ rustupRuns = <<>>
    /\ tcRet.kind = "Message"

\* ---------------------------------------------------------------- C30
\* a line `error: toolchain ... is not installed` is among those of the last call
NotInstalledSeen ==
    \E i \in DOMAIN tcCall.lines :
        /\ starts_with(tcCall.lines[i].line, "error: toolchain ")
        /\ ends_with(tcCall.lines[i].line, " is not installed")

ListedAs(name) ==
    IF rustupHome[name].kind = "symlink" \/ rustupHome[name].hash
    THEN [kind |-> "dist", name |-> name, alt |-> FALSE]
    ELSE IF Len(name) >= 4 /\ SubSeq(name, Len(name) - 3, Len(name)) = "-alt"
    THEN [kind |-> "ci", name |-> SubSeq(name, 1, Len(name) - 4), alt |-> TRUE]
    ELSE [kind |-> "ci", name |-> name, alt |-> FALSE]

\* the listing holds one toolchain per entry, the one the claim names
OnePerEntry ==
    /\ Len(listRet.list) = Len(listCall.entries)
    /\ \A i \in DOMAIN listCall.entries : listRet.list[i] = ListedAs(listCall.entries[i])

\* a CI toolchain installed under its rustup name is listed with its sha and flag
CiRoundTrip ==
    \A tc \in {t \in Toolchains : t.kind = "ci"} :
        LET name == IF tc.alt THEN tc.name \o "-alt" ELSE tc.name
        IN  rustupHome[name] = [kind |-> "dir", hash |-> FALSE] =>
                \E i \in DOMAIN listRet.list : listRet.list[i] = tc

\* C31 as stated: a listing that returns holds exactly one toolchain per entry
\* of toolchains/, dist or CI, and so finds every installed CI toolchain again.
C31_AsStated ==
    listRet.kind = "Ok" => OnePerEntry /\ CiRoundTrip

\* C31: in a build with the feature unstable-toolchain-ci a listing that returns
\* holds exactly one toolchain per entry of toolchains/: Dist(name) for a symlink
\* or a name found in update-hashes/, otherwise CI(sha, alt) with the suffix
\* -alt turned into the flag, so an installed CI toolchain is listed as itself;
\* in a build without the feature it holds the dist entries only.
C31_OnePerEntry ==
    listRet.kind = "Ok" =>
        IF listCall.ci
        THEN OnePerEntry /\ CiRoundTrip
        ELSE listRet.list =
                SelectSeq([i \in DOMAIN listCall.entries |-> ListedAs(listCall.entries[i])],
                          LAMBDA t : t.kind = "dist")

\* the four entries of test_list_installed, all of them listed
C31_Witness ==
    /\ listRet.kind = "Ok"
    /\ listCall.ci
    /\ listCall.entries = <<"stable", "stage1", "0a1b2c", "0a1b2c-alt">>
    /\ listRet.list = << [kind |-> "dist", name |-> "stable", alt |-> FALSE],
                         [kind |-> "dist", name |-> "stage1", alt |-> FALSE],
                         [kind |-> "ci", name |-> "0a1b2c", alt |-> FALSE],
                         [kind |-> "ci", name |-> "0a1b2c", alt |-> TRUE] >>
    /\ rustupHome["stage1"].kind = "symlink"
    /\ ~rustupHome["stage1"].hash

\* ---------------------------------------------------------------- C32
\* the pairs of the environment that the caller supplied, and those rustwide set
CallerPair(kv) == kv[2] = "user"
RustwidePair(kv) == kv[1] \in {"CARGO_HOME", "RUSTUP_HOME", "SOURCE_DIR"} /\ kv[2] # "user"

\* C32: in the environment given to the process or to docker create, every pair
\* the caller supplied through env() comes after every pair rustwide sets for
\* CARGO_HOME, RUSTUP_HOME and SOURCE_DIR, so that the caller's value wins.
C32_CallerWins ==
    launch.kind # "none" =>
        \A i, j \in DOMAIN launch.env :
            CallerPair(launch.env[i]) /\ RustwidePair(launch.env[j]) => j < i

\* not sandboxed: the caller's CARGO_HOME is set after rustwide's
C32_Witness ==
    /\ launch.kind = "process"
    /\ Len(launch.env) = 3
    /\ RustwidePair(launch.env[1]) /\ launch.env[1][1] = "CARGO_HOME"
    /\ launch.env[3] = <<"CARGO_HOME", "user">>

\* ---------------------------------------------------------------- C33
\* the kinds with which a path of the sandbox is mounted
PermsAt(dst) == {launch.volumes[i].perm : i \in {k \in DOMAIN launch.volumes :
                                                     launch.volumes[k].dst = dst}}

\* C33: a sandboxed Command mounts its source directory read-only at the work
\* dir and the rustup home read-only, the cargo home read-write exactly when
\* rw_cargo_home was called on that Command, whatever was called on the one
\* before, and target/ read-write when a Build issued it.
C33_MountKinds ==
    launch.kind = "docker create" =>
        /\ PermsAt(<<"opt", "rustwide", "workdir">>) = {"ro"}
        /\ PermsAt(<<"opt", "rustwide", "rustup-home">>) = {"ro"}
        /\ PermsAt(<<"opt", "rustwide", "cargo-home">>) = {IF cmdCfg.rw THEN "rw" ELSE "ro"}
        /\ cmdCfg.build => PermsAt(<<"opt", "rustwide", "target">>) = {"rw"}

\* a Build's command without rw_cargo_home, after a command that had it
C33_Witness ==
    /\ launch.kind = "docker create"
    /\ prevRw
    /\ ~cmdCfg.rw
    /\ cmdCfg.build
    /\ PermsAt(<<"opt", "rustwide", "cargo-home">>) = {"ro"}
    /\ PermsAt(<<"opt", "rustwide", "target">>) = {"rw"}

\* ---------------------------------------------------------------- C34
\* the entries of the log about one tool, in order
LogOf(tool) == SelectSeq(toolLog, LAMBDA e : e.tool = tool)

\* the installs and updates of one tool
ChangesOf(tool) == SelectSeq(toolLog, LAMBDA e : e.tool = tool /\ e.op \in {"install", "update"})

\* the entry at which the installation failed: a failed check, install or
\* update, or a tool still missing after its install
FailsAt(k) ==
    \/ toolLog[k].res = "Err"
    \/ /\ toolLog[k].op = "is_installed"
       /\ toolLog[k].res = "false"
       /\ k > 1
       /\ toolLog[k - 1].op = "install"

\* C34: install goes through the tools in the order of the registry, rustup
\* first; for each tool it does exactly one of update, when the tool is
\* installed, or install, when it is missing; a failed install or update, or a
\* tool still missing after its install, makes it fail without going on to the
\* later tools; when it returns Ok every tool was found installed.
C34_InstallOrder ==
    /\ \A k \in DOMAIN toolLog :
         /\ k = 1 => toolLog[k].tool = "rustup"
         /\ k > 1 => ToolIndex(toolLog[k].tool) - ToolIndex(toolLog[k - 1].tool) \in {0, 1}
         /\ FailsAt(k) => k = Len(toolLog) /\ toolRet = "Err"
         /\ k > 1 /\ toolLog[k].tool # toolLog[k - 1].tool =>
                Len(ChangesOf(toolLog[k - 1].tool)) = 1
    /\ \A i \in DOMAIN INSTALLABLE_TOOLS :
         LET tool == INSTALLABLE_TOOLS[i]
         IN  /\ Len(ChangesOf(tool)) <= 1
             /\ ChangesOf(tool) # <<>> =>
                    /\ LogOf(tool)[1].op = "is_installed"
                    /\ ChangesOf(tool)[1].op = "update" <=> LogOf(tool)[1].res = "true"
             /\ toolRet = "Ok" =>
                    /\ Len(ChangesOf(tool)) = 1
                    /\ LogOf(tool)[Len(LogOf(tool))] \in
                         { [tool |-> tool, op |-> "update", res |-> "Ok"],
                           [tool |-> tool, op |-> "is_installed", res |-> "true"] }
    /\ toolRet = "Err" => toolLog # <<>> /\ FailsAt(Len(toolLog))

\* rustup was updated, cargo-install-update was missing after its install:
\* the two other tools were never looked at
C34_Witness ==
    /\ toolRet = "Err"
    /\ Len(toolLog) = 5
    /\ toolLog[2] = [tool |-> "rustup", op |-> "update", res |-> "Ok"]
    /\ toolLog[4] = [tool |-> "cargo-install-update", op |-> "install", res |-> "Ok"]
    /\ toolLog[5] = [tool |-> "cargo-install-update", op |-> "is_installed", res |-> "false"]

\* ---------------------------------------------------------------- C35
\* the canonical form of a path: the symbolic link /link resolved to /mnt
Canonical(p) == IF p # <<>> /\ Head(p) = "link" THEN <<"mnt">> \o Tail(p) ELSE p

IsPrefix(q, p) == Len(q) <= Len(p) /\ \A i \in DOMAIN q : q[i] = p[i]

\* the entries of the host-mount table whose destination is a prefix of the path
Matching(p) ==
    {i \in DOMAIN wsContainer[1] :
        IsPrefix(Canonical(wsContainer[1][i].destination), Canonical(p))}

\* a sandboxed Command was run in a workspace that has a host-mount table
Remapped == cmdCfg.st = "run" /\ cmdCfg.sandboxed /\ wsContainer # None

\* the mounts of the Command that no entry of the table matches
Unmatched ==
    {k \in DOMAIN SandboxMounts(cmdCfg) : Matching(SandboxMounts(cmdCfg)[k].host_path) = {}}

\* the mounts of the Command whose directory cannot be created
Uncreatable ==
    {k \in DOMAIN SandboxMounts(cmdCfg) : ~SandboxMounts(cmdCfg)[k].creatable}

\* every volume given to docker create is the source of a matching entry
\* followed by what the entry's destination leaves of the path
Rewritten ==
    /\ Len(launch.volumes) = Len(SandboxMounts(cmdCfg))
    /\ \A k \in DOMAIN launch.volumes :
         LET p == Canonical(SandboxMounts(cmdCfg)[k].host_path)
         IN  \E i \in Matching(p) :
                LET dest == Canonical(wsContainer[1][i].destination)
                IN  launch.volumes[k].src =
                        wsContainer[1][i].source \o SubSeq(p, Len(dest) + 1, Len(p))

\* C35 as stated: with a host-mount table every mount is rewritten, and one
\* mount without a matching entry makes the creation fail with
\* WorkspaceNotMountedCorrectly before any docker create.
C35_AsStated ==
    Remapped =>
        /\ Unmatched = {} /\ Uncreatable = {} => launch.kind = "docker create" /\ Rewritten
        /\ Unmatched # {} => launch.kind = "none" /\ launchRet = "WorkspaceNotMountedCorrectly"

\* C35: with a host-mount table every mount is rewritten; one mount without a
\* matching entry makes the creation fail before any docker create, with
\* WorkspaceNotMountedCorrectly unless the directory of that mount or of an
\* earlier one could not be created, which fails with that I/O error first.
C35_NotMounted ==
    Remapped =>
        /\ Unmatched = {} /\ Uncreatable = {} => launch.kind = "docker create" /\ Rewritten
        /\ Unmatched # {} =>
             /\ launch.kind = "none"
             /\ launchRet =
                  IF \E j \in Uncreatable : \A k \in Unmatched : j <= k
                  THEN "IO" ELSE "WorkspaceNotMountedCorrectly"

\* only builds/ is shared with the host: the cargo home cannot be mounted
C35_Witness ==
    /\ Remapped
    /\ wsContainer = Some(<< [source |-> <<"host", "b">>,
                              destination |-> <<"mnt", "ws", "builds">>] >>)
    /\ cmdCfg.build
    /\ Uncreatable = {}
    /\ launch.kind = "none"
    /\ launchRet = "WorkspaceNotMountedCorrectly"

\* ---------------------------------------------------------------- C36
\* C36: when the deletion of the container fails the error is only logged:
\* the value of the sandboxed run is what running the container gave (the
\* value of Container::run after a successful inspect, the error that ended
\* Container::run otherwise) and never an error of the deletion; a run that
\* panicked returns no value at all.
C36_DeletionLogged ==
    (phase = "done" /\ deleted = "err") =>
        CASE inspected = "ok" -> ret = ContainerRunValue(cmdRes, oom)
          [] inspected = "err" -> \E e \in InspectErrors : ret = InspectFailed(cmdRes, e)
          [] OTHER -> panicked /\ ret = NoRes

\* a successful run whose container could not be deleted still returns Ok
C36_Witness ==
    /\ phase = "done" /\ deleted = "err" /\ container = "exists"
    /\ inspected = "ok" /\ ret.kind = "Ok" /\ ret = cmdRes

\* ---------------------------------------------------------------- C37
\* C37: whenever a run returns Timeout(T) or NoOutputFor(I) a kill of the
\* child's pid was issued and succeeded before the call returned, and a
\* child that exited by itself and was never killed is never reported as
\* Timeout.
C37_KilledBeforeReturn ==
    Returned =>
        /\ cmdRes.kind \in {"Timeout", "NoOutputFor"}
              => (idleKill = "ok" \/ wallKill = "ok")
        /\ (child.st = "ok" /\ ~TimerFired) => cmdRes.kind # "Timeout"

\* the part of C37 about NoOutputFor: it is only returned after the idle
\* timer's kill succeeded
C37_NoOutputKilled ==
    (Returned /\ cmdRes.kind = "NoOutputFor") => idleKill = "ok"

\* the wall-clock timer killed a child that kept writing, and the run
\* returned Timeout(T)
C37_Witness ==
    /\ Returned /\ wallKill = "ok" /\ idleKill = "none" /\ nRead > 0
    /\ child.st = "err" /\ output.st = "ok"
    /\ cmdRes = ResErr(Timeout(EffTimeout))

\* ---------------------------------------------------------------- C38
\* C38: the cache never holds a partial archive: a file is at the cache path of a
\* package only if a fetch of it downloaded the whole archive, a fetch that
\* fails leaves no file there, and so the shortcut of fetch never takes an
\* incomplete file for the archive.
C38_NoPartial ==
    /\ \A krate \in RegCrates :
         cacheFile[cache_path(krate)] # "none" =>
            krate \in fetched /\ cacheFile[cache_path(krate)] = "full"
    /\ regCall.op = "fetch" /\ regRet = "Err" => cacheFile[cache_path(regCall.krate)] = "none"

\* a fetch refused by the server: an error, and nothing at the cache path
C38_Witness ==
    /\ regCall.op = "fetch"
    /\ regCall.http = "status"
    /\ regRet = "Err"
    /\ cacheFile[cache_path(regCall.krate)] = "none"

NoIdleTimeout == no_output_timeout = None /\ timeout # None

\* C40 as stated: without idle timeout and with a wall-clock timeout T the
\* run never fails with NoOutputFor, and a child that stayed silent and was
\* still running after T is reported as Timeout(T).
C40_AsStated ==
    (Returned /\ NoIdleTimeout) =>
        /\ cmdRes.kind # "NoOutputFor"
        /\ (nRead = 0 /\ TimerFired) => cmdRes = ResErr(Timeout(EffTimeout))

\* C40 amended: without idle timeout and with a wall-clock timeout T the
\* idle timer runs with T. The run never fails with NoOutputFor before T has
\* elapsed, and only with NoOutputFor(T); the output of a child that stays
\* silent is not awaited beyond T; a child that stayed silent and was still
\* running after T is killed, and the run fails with NoOutputFor(T) when the
\* idle timer's kill succeeded, and otherwise with Timeout(T),
\* KillAfterTimeoutFailed or the I/O error of the output stream.
C40_IdleDefault ==
    NoIdleTimeout =>
        /\ (phase = "running" /\ output.st = "pending" /\ nRead = 0)
              => now <= EffTimeout
        /\ (Returned /\ cmdRes.kind = "NoOutputFor") =>
              /\ cmdRes = ResErr(NoOutputFor(EffTimeout))
              /\ now >= EffTimeout
              /\ idleKill = "ok"
        /\ (Returned /\ idleKill = "ok") => cmdRes = ResErr(NoOutputFor(EffTimeout))
        /\ (Returned /\ nRead = 0 /\ TimerFired) =>
              /\ now = EffTimeout
              /\ cmdRes.kind \in {"NoOutputFor", "Timeout", "KillAfterTimeoutFailed", "IO"}

\* the silent child, still running after T, reported as NoOutputFor(T)
C40_Witness ==
    /\ Returned /\ NoIdleTimeout
    /\ nRead = 0 /\ now = EffTimeout
    /\ idleKill = "ok" /\ wallKill = "ok"
    /\ cmdRes = ResErr(NoOutputFor(EffTimeout))

====
